---------------------------- MODULE Spec2Model ----------------------------
(***************************************************************************)
(* Model of eslint-plugin-next-intl: the CLI (src/cli.ts: usage resolver,  *)
(* reconciler, fix mode), the key loader (src/core.ts) and the two ESLint  *)
(* rules (src/rules/no-missing-keys.ts, src/rules/no-dynamic-keys.ts).     *)
(*                                                                         *)
(* Strings are sequences of one-character strings, so that joining with    *)
(* "." (flattenKeys, the full key of a usage) and String.split(".") (fix   *)
(* mode) are computed character by character.                              *)
(***************************************************************************)
EXTENDS Integers, Sequences, FiniteSets, TLC

(***************************************************************************)
(* Strings                                                                 *)
(***************************************************************************)
Dot == "."

\* The characters the model's strings are made of, in ascending order of
\* their UTF-16 code unit (the order Array.prototype.sort compares by).
Alphabet == <<".", "a", "b", "d", "e", "f", "l", "t", "u", "x">>

CharCode(c) == CHOOSE i \in 1..Len(Alphabet) : Alphabet[i] = c

EmptyStr == <<>>

\* JavaScript truthiness of a string: only "" is falsy.
Truthy(s) == s # EmptyStr

\* `${a}.${b}`
DotJoin(a, b) == a \o <<Dot>> \o b

\* String.prototype.split("."): the segments between the dots ("" -> [""]).
RECURSIVE SplitFrom(_, _)
SplitFrom(s, cur) ==
    IF s = <<>> THEN <<cur>>
    ELSE IF Head(s) = Dot THEN <<cur>> \o SplitFrom(Tail(s), <<>>)
    ELSE SplitFrom(Tail(s), Append(cur, Head(s)))

Split(s) == SplitFrom(s, <<>>)

\* a < b in the order of Array.prototype.sort() without a comparator.
RECURSIVE StrLess(_, _)
StrLess(a, b) ==
    IF b = <<>> THEN FALSE
    ELSE IF a = <<>> THEN TRUE
    ELSE IF Head(a) = Head(b) THEN StrLess(Tail(a), Tail(b))
    ELSE CharCode(Head(a)) < CharCode(Head(b))

\* Array.from(set).sort()
RECURSIVE SortedSeq(_)
SortedSeq(S) ==
    IF S = {} THEN <<>>
    ELSE LET m == CHOOSE x \in S : \A y \in S \ {x} : StrLess(x, y)
         IN  <<m>> \o SortedSeq(S \ {m})

(***************************************************************************)
(* Message documents: a JSON object is a function from property names to   *)
(* values; a value is a leaf or a nested object.                           *)
(***************************************************************************)
EmptyObj == [n \in {} |-> 0]

Leaf(v) == [leaf |-> TRUE, v |-> v, kids |-> EmptyObj]

Container(o) == [leaf |-> FALSE, v |-> "", kids |-> o]

\* Object.keys(obj)
Keys(o) == DOMAIN o

\* A delete that clears the whole object.
DeleteProp_All(o, key) == EmptyObj

\* delete obj[key]
DeleteProp(o, key) == [n \in (DOMAIN o) \ {key} |-> o[n]]

\* obj[key] = value
SetProp(o, key, val) == [n \in (DOMAIN o) \cup {key} |-> IF n = key THEN val ELSE o[n]]

\* A flattening that forgets the names of the containers.
RECURSIVE flattenKeys_Unprefixed(_, _)
flattenKeys_Unprefixed(obj, prefix) ==
    UNION { IF ~obj[key].leaf THEN flattenKeys_Unprefixed(obj[key].kids, prefix)
            ELSE {key}
          : key \in DOMAIN obj }

\* flattenKeys(obj, prefix): the dot-paths of the leaves. The code returns
\* them as an array in property order; its only caller builds a Set of them.
RECURSIVE flattenKeys(_, _)
flattenKeys(obj, prefix) ==
    UNION { IF ~obj[key].leaf
            THEN flattenKeys(obj[key].kids, IF Truthy(prefix) THEN DotJoin(prefix, key) ELSE key)
            ELSE { IF Truthy(prefix) THEN DotJoin(prefix, key) ELSE key }
          : key \in DOMAIN obj }

\* A delete that leaves the emptied containers in place.
RECURSIVE deleteKey_Unpruned(_, _)
deleteKey_Unpruned(obj, pathParts) ==
    LET key == pathParts[1] IN
    IF Len(pathParts) = 1
    THEN [obj |-> DeleteProp(obj, key), emptied |-> FALSE]
    ELSE IF key \in DOMAIN obj /\ ~obj[key].leaf
    THEN [obj |-> SetProp(obj, key,
                    Container(deleteKey_Unpruned(obj[key].kids, Tail(pathParts)).obj)),
          emptied |-> FALSE]
    ELSE [obj |-> obj, emptied |-> FALSE]

\* deleteKey(obj, pathParts): obj is mutated in place, so the model returns
\* the object after the call together with the returned flag.
RECURSIVE deleteKey(_, _)
deleteKey(obj, pathParts) ==
    LET key == pathParts[1] IN
    IF Len(pathParts) = 1
    THEN LET o1 == DeleteProp(obj, key)
         IN  [obj |-> o1, emptied |-> Keys(o1) = {}]
    ELSE IF key \in DOMAIN obj /\ ~obj[key].leaf
    THEN LET r == deleteKey(obj[key].kids, Tail(pathParts)) IN
         IF r.emptied
         THEN LET o2 == DeleteProp(obj, key)
              IN  [obj |-> o2, emptied |-> Keys(o2) = {}]
         ELSE [obj |-> SetProp(obj, key, Container(r.obj)), emptied |-> FALSE]
    ELSE [obj |-> obj, emptied |-> FALSE]

\* A loop that stops after the first key.
RemoveKeys_First(content, sortedUnused) ==
    IF sortedUnused = <<>> THEN content
    ELSE deleteKey(content, Split(Head(sortedUnused))).obj

\* The loop of fix mode over sortedUnused: deleteKey(content, key.split("."))
\* for each key in turn.
RECURSIVE RemoveKeys(_, _)
RemoveKeys(content, sortedUnused) ==
    IF sortedUnused = <<>> THEN content
    ELSE RemoveKeys(deleteKey(content, Split(Head(sortedUnused))).obj, Tail(sortedUnused))


(***************************************************************************)
(* Bounds of the model                                                     *)
(***************************************************************************)
\* Source files the project holds.
MaxFiles == 1
\* Calls of useTranslations in the source files of the project.
MaxHooks == 1
\* References to one hook variable in the analysed code.
MaxRefs == 2
\* Argument positions 0..MaxArgIndex a translator is passed at.
MaxArgIndex == 2
\* Nesting depth of the message documents.
MaxDepth == 2
\* Properties a document given to deleteKey or flattenKeys on its own holds.
MaxNodes == 3
\* Writes of the source-locale file between the calls of loadMessages.
MaxWrites == 3
MaxCallers == 2

(***************************************************************************)
(* The syntax trees, as the resolver sees them through ts-morph.           *)
(***************************************************************************)
\* The first argument of a call: absent, a string literal, anything else.
NoArg == [a |-> "none", k |-> EmptyStr]
Lit(k) == [a |-> "lit", k |-> k]
Dyn == [a |-> "dyn", k |-> EmptyStr]

\* A reference to a translator binding, by the syntax around it:
\*   call   t(arg)                 the reference is the callee
\*   rich   t.rich(arg)            the object of the callee's property access
\*   member t.rich                 a property access that is not called
\*   arg    callee(.., t, ..)      a bare argument at position index
\*   prop   callee(.., {name: t})  or {t} (short): the value of a property of
\*                                 an object literal at position index
\*   other  anything else
Call(a) == [kind |-> "call", arg |-> a, callee |-> "", index |-> 0, short |-> FALSE, name |-> ""]
Rich(a) == [kind |-> "rich", arg |-> a, callee |-> "", index |-> 0, short |-> FALSE, name |-> ""]
Member == [kind |-> "member", arg |-> NoArg, callee |-> "", index |-> 0, short |-> FALSE, name |-> ""]
Other == [kind |-> "other", arg |-> NoArg, callee |-> "", index |-> 0, short |-> FALSE, name |-> ""]
ArgOf(c, i) == [kind |-> "arg", arg |-> NoArg, callee |-> c, index |-> i, short |-> FALSE, name |-> ""]
PropOf(c, i, n, sh) == [kind |-> "prop", arg |-> NoArg, callee |-> c, index |-> i, short |-> sh, name |-> n]
NoRef == [kind |-> "none", arg |-> NoArg, callee |-> "", index |-> 0, short |-> FALSE, name |-> ""]

\* A call of useTranslations, by its first argument and by its parent:
\*   var    const v = useTranslations(..)     a variable declaration
\*   arg    callee(.., useTranslations(..))   an argument of a call
\*   prop   callee({name: useTranslations(..)})
\*   expr   anything else
Hook(a, ctx, c, i, n) == [arg |-> a, ctx |-> ctx, callee |-> c, index |-> i, name |-> n]
NoHook == Hook(NoArg, "none", "", 0, "")

\* The string literals of the analysed code.
NsA == <<"a">>
KeyB == <<"b">>
KeyX == <<"x">>
KeyD == <<"d">>
DefaultNs == <<"d", "e", "f", "a", "u", "l", "t">>

\* The functions the analysed code declares:
\*   function f(a, b) { a('x'); h(b); }
\*   const h = (c) => { c('d'); c(k); f(c, c); }
\*   function g({t, x: y}) { t('x'); y.rich('d'); }
\*   const k = ({t}) => { t('x'); k({t}); }
\*   import { fi } from ...       an import specifier whose aliased symbol is f
\*   const n = 1                  a variable that is no function
\*   u                            a callee without a symbol
Simple(node) == [node |-> node, pattern |-> FALSE, elements |-> <<>>]
Pattern(node, elems) == [node |-> node, pattern |-> TRUE, elements |-> elems]
Element(prop, node) == [propertyName |-> prop, node |-> node]

Decl(kind, fn, params, target) == [kind |-> kind, fn |-> fn, params |-> params, target |-> target]

Callees == {"f", "h", "g", "k", "fi", "n", "u"}

Decls ==
    [c \in Callees |->
        CASE c = "f" -> Decl("function", TRUE, <<Simple("f.a"), Simple("f.b")>>, "")
          [] c = "h" -> Decl("variable", TRUE, <<Simple("h.c")>>, "")
          [] c = "g" -> Decl("function", TRUE,
                             <<Pattern("g.0", <<Element("t", "g.t"), Element("x", "g.y")>>)>>, "")
          [] c = "k" -> Decl("variable", TRUE, <<Pattern("k.0", <<Element("t", "k.t")>>)>>, "")
          [] c = "fi" -> Decl("import", FALSE, <<>>, "f")
          [] c = "n" -> Decl("variable", FALSE, <<>>, "")
          [] c = "u" -> Decl("none", FALSE, <<>>, "")]

\* The binding nodes: "v" is the variable a hook call initialises, the others
\* are the parameters and binding elements of the functions above.
LibNodes == {"f.a", "f.b", "h.c", "g.0", "g.t", "g.y", "k.0", "k.t"}

\* findReferencesAsNodes() of a parameter or binding element.
LibRefs ==
    [nd \in LibNodes |->
        CASE nd = "f.a" -> <<Call(Lit(KeyX))>>
          [] nd = "f.b" -> <<ArgOf("h", 0)>>
          [] nd = "h.c" -> <<Call(Lit(KeyD)), Call(Dyn), ArgOf("f", 0), ArgOf("f", 1)>>
          [] nd = "g.t" -> <<Call(Lit(KeyX))>>
          [] nd = "g.y" -> <<Rich(Lit(KeyD))>>
          [] nd = "k.t" -> <<Call(Lit(KeyX)), PropOf("k", 0, "t", TRUE)>>
          [] OTHER -> <<>>]

\* The first arguments, references and hook calls the analysed code is made of.
HookArgs == {NoArg, Lit(NsA), Lit(EmptyStr), Dyn}
KeyArgs == {NoArg, Lit(KeyB), Dyn}
ArgIndexes == 0..MaxArgIndex

RefShapes ==
    {Call(a) : a \in KeyArgs} \cup {Rich(a) : a \in KeyArgs} \cup {Member, Other}
    \cup {ArgOf("f", i) : i \in ArgIndexes}
    \cup {ArgOf(c, 0) : c \in Callees}
    \cup {PropOf("g", 0, n, sh) : n \in {"t", "x", "z"}, sh \in BOOLEAN}
    \cup {PropOf(c, 0, "t", TRUE) : c \in {"f", "h", "k"}}

HookShapes ==
    {Hook(a, "var", "", 0, "") : a \in HookArgs}
    \cup {Hook(a, "arg", "f", 0, "") : a \in HookArgs}
    \cup {Hook(a, "prop", "g", 0, "t") : a \in HookArgs}
    \cup {Hook(a, "expr", "", 0, "") : a \in HookArgs}

(***************************************************************************)
(* The code the ESLint rules see                                           *)
(***************************************************************************)
\* A first argument that is a Literal whose value is not a string: t(42).
NonString == [a |-> "num", k |-> EmptyStr]

\* A VariableDeclarator: whether its init is a call of the identifier
\* useTranslations and with which first argument, how many variables it
\* declares, and the references of the first of them in source order.
Declarator(isHook, arg, declared, refs) ==
    [isHook |-> isHook, arg |-> arg, declared |-> declared, refs |-> refs]
NoDeclarator == Declarator(FALSE, NoArg, 0, <<>>)

RuleHookArgs == HookArgs \cup {NonString}
RuleRefShapes ==
    {Call(a) : a \in KeyArgs \cup {Lit(KeyX), NonString}}
        \cup {Rich(Lit(KeyB)), ArgOf("f", 0), Other}

Rules == {"no-missing-keys", "no-dynamic-keys"}
\* definedKeys of no-missing-keys: null until getKeys loads the keys.
Null == [isNull |-> TRUE, keys |-> {}]
KeySet(keys) == [isNull |-> FALSE, keys |-> keys]

(***************************************************************************)
(* The message directory                                                   *)
(***************************************************************************)
SourceLocale == "en"
OtherLocale == "de"
Locales == {SourceLocale, OtherLocale}
\* The messages directory the CLI and the rule default to, and another one
\* a configuration may name.
DefaultDir == "src/messages"
CustomDir == "messages"

\* A field of the rule options or of the shared settings: undefined, or a
\* string (the schema of the rule allows every string, the empty one too).
Undefined == [given |-> FALSE, value |-> ""]
Given(v) == [given |-> TRUE, value |-> v]
NextIntlOptions(dir, locale) == [messagesDir |-> dir, sourceLocale |-> locale]
\* The context ESLint hands to create: options[0] and settings["next-intl"],
\* each {} when it is absent.
Context(opts, shared) == [options |-> opts, settings |-> shared]
NoContext ==
    Context(NextIntlOptions(Undefined, Undefined),
            NextIntlOptions(Undefined, Undefined))

\* A file of the message directory: absent, present with text JSON.parse
\* rejects, or present with a JSON object. JSON.stringify writes the object
\* JSON.parse built, so a file is kept as the object it parses to.
AbsentFile == [exists |-> FALSE, parses |-> FALSE, doc |-> EmptyObj, mtimeMs |-> 0]
BadFile == [exists |-> TRUE, parses |-> FALSE, doc |-> EmptyObj, mtimeMs |-> 0]
JsonFile(doc) == [exists |-> TRUE, parses |-> TRUE, doc |-> doc, mtimeMs |-> 0]

\* fs.writeFileSync of the text of doc over file: the modification time moves on.
WriteFile(file, doc) ==
    [exists |-> TRUE, parses |-> TRUE, doc |-> doc, mtimeMs |-> file.mtimeMs + 1]

\* The property names of the generated documents; one of them holds a dot.
SegA == <<"a">>
SegB == <<"b">>
SegD == <<"d">>
SegX == <<"x">>
SegDotted == <<"a", ".", "b">>
LeafValue == "msg"

\* All objects nested at most d deep whose property names are in names.
RECURSIVE ObjectsOver(_, _)
ObjectsOver(names, d) ==
    LET vals == {Leaf(LeafValue)} \cup
                (IF d > 1 THEN {Container(o) : o \in ObjectsOver(names, d - 1)} ELSE {})
    IN  UNION {[S -> vals] : S \in SUBSET names}

(***************************************************************************)
(* State                                                                   *)
(***************************************************************************)
VARIABLES
    files,          \* the message directory: locale -> file
    mode,           \* "check" or "fix" (values.fix)
    pc,             \* where main() stands
    allDefinedKeys, \* loadMessages(cwd, messagesDir, sourceLocale)
    usedKeys,       \* the Used-Key Set
    dynamicUsages,  \* the Dynamic Usage Records, in order
    filesLeft,      \* source files the loop of main has not visited yet
    importsHook,    \* whether the current source file imports useTranslations
    hooksLeft,      \* calls of useTranslations the loops have not visited yet
    callExpr,       \* the hook call the loop of main stands at
    stack,          \* the active calls of findUsagesRecursive, innermost first
    visited,        \* the visited set of the current traversal
    ref,            \* the reference the innermost loop stands at
    unusedKeys,
    missingKeys,
    hasIssues,
    exitCode,       \* process.exitCode; 0 stands for undefined
    messageFiles,   \* fix mode: the message files not processed yet
    errors,         \* fix mode: the files reported as Error processing
    cache,          \* core.ts: file path -> { mtimeMs, keys }, or no entry
    lintLeft,       \* source files ESLint has not linted yet
    declLeft,       \* declarators of the linted file the traversal has not reached
    declarator,     \* the VariableDeclarator the traversal stands at
    handled,        \* the rules whose handler ran for that declarator
    definedKeys,    \* no-missing-keys: the keys of this lint of the file, or null
    context,        \* the context create was called with
    reports,        \* the problems the handlers reported for that declarator
    original,       \* a document as it was first parsed
    document,       \* that document after the deleteKey calls made on it
    lastPath,       \* pathParts of the latest call of deleteKey
    emptied,        \* what that call returned
    flatKeys,       \* what the latest call of flattenKeys returned
    calls,          \* the invocations of loadMessages: where each stands, its locals
    previous        \* what the run of the CLI before this one ended with, if there was one

vars == <<files, mode, pc, allDefinedKeys, usedKeys, dynamicUsages, filesLeft,
          importsHook, hooksLeft, callExpr, stack, visited, ref, unusedKeys,
          missingKeys, hasIssues, exitCode, messageFiles, errors,
          cache, lintLeft, declLeft, declarator, handled, definedKeys, context,
          reports, original, document, lastPath, emptied, flatKeys, calls, previous>>

resolverVars == <<usedKeys, dynamicUsages, filesLeft, importsHook, hooksLeft,
                  callExpr, stack, visited, ref>>
reportVars == <<unusedKeys, missingKeys, hasIssues, messageFiles, errors>>
lintVars == <<lintLeft, declLeft, declarator, handled, definedKeys, context,
             reports>>
docVars == <<original, document, lastPath, emptied, flatKeys>>

\* No document is at hand.
NoDocument ==
    /\ original = EmptyObj
    /\ document = EmptyObj
    /\ lastPath = <<>>
    /\ emptied = FALSE
    /\ flatKeys = {}

(***************************************************************************)
(* core.ts                                                                 *)
(***************************************************************************)
\* No entry of the cache for a path.
NoEntry == [cached |-> FALSE, mtimeMs |-> 0, keys |-> {}]
Entry(mtimeMs, keys) == [cached |-> TRUE, mtimeMs |-> mtimeMs, keys |-> keys]

\* The end of a run of the CLI, and no run.
RunEnd(ran, m, fs, used, unused, missing, code) ==
    [ran |-> ran, mode |-> m, files |-> fs, usedKeys |-> used, unusedKeys |-> unused,
     missingKeys |-> missing, exitCode |-> code]
NoRun == RunEnd(FALSE, "check", [l \in Locales |-> AbsentFile], {}, {}, {}, 0)

\* The callers of loadMessages, and an invocation that has not begun.
Callers == 1..MaxCallers
NoCall == [at |-> "idle", mtimeMs |-> 0, keys |-> {}]

\* A lookup that takes any entry for a hit.
CacheHit_Any(cached, mtimeMs) == cached.cached

\* cached && cached.mtimeMs === stats.mtimeMs (core.ts 33)
CacheHit(cached, mtimeMs) == cached.cached /\ cached.mtimeMs = mtimeMs

\* The file at path.join(path.resolve(cwd, dir), locale + ".json"): the
\* default directory is the one directory on the disk, fs holds its files.
FileAt(fs, dir, locale) ==
    IF dir = DefaultDir /\ locale \in DOMAIN fs THEN fs[locale] ELSE AbsentFile

\* A cache whose entry is returned whatever the modification time.
loadMessages_Sticky(c, fs, dir, locale) ==
    LET file == FileAt(fs, dir, locale)
    IN  IF ~file.exists THEN [keys |-> {}, cache |-> c]
        ELSE IF c[locale].cached
        THEN [keys |-> c[locale].keys, cache |-> c]
        ELSE IF file.parses
        THEN LET keys == flattenKeys(file.doc, EmptyStr)
             IN  [keys |-> keys,
                  cache |-> [c EXCEPT ![locale] = Entry(file.mtimeMs, keys)]]
        ELSE [keys |-> {}, cache |-> c]

\* loadMessages with the cache c over the disk fs: the keys returned and
\* the cache after the call. An absent file and a file that does not parse
\* yield the empty set and leave the cache alone; an entry stored with the
\* modification time of the file is returned as it is. The files that exist
\* are those of one directory, so the locale stands for the path in the cache.
loadMessages(c, fs, dir, locale) ==
    LET file == FileAt(fs, dir, locale)
    IN  IF ~file.exists THEN [keys |-> {}, cache |-> c]
        ELSE IF c[locale].cached /\ c[locale].mtimeMs = file.mtimeMs
        THEN [keys |-> c[locale].keys, cache |-> c]
        ELSE IF file.parses
        THEN LET keys == flattenKeys(file.doc, EmptyStr)
             IN  [keys |-> keys,
                  cache |-> [c EXCEPT ![locale] = Entry(file.mtimeMs, keys)]]
        ELSE [keys |-> {}, cache |-> c]

(***************************************************************************)
(* cli.ts: the usage resolver                                              *)
(***************************************************************************)
\* A full key that ignores the namespace.
FullKey_Unqualified(namespace, literal) == literal

\* The full key of a usage (cli.ts 152-154).
FullKey(namespace, literal) ==
    IF Truthy(namespace) THEN DotJoin(namespace, literal) ELSE literal

\* The namespace main gives a hook call with a literal or no argument
\* (cli.ts 306-311).
HookNamespace(hook) ==
    IF hook.arg.a = "lit" THEN hook.arg.k ELSE DefaultNs

DynamicKey(file, namespace) == [file |-> file, what |-> "key", namespace |-> namespace]
DynamicNamespace(file) == [file |-> file, what |-> "namespace", namespace |-> EmptyStr]

\* The source file of a binding node: the parameters live in file 0.
FileOf(node, current) == IF node = "v" THEN current ELSE 0

\* A forwarding that takes the first parameter whatever the index.
ParamTargets_First(params, argIndex, destructuredPropName) ==
    IF params # <<>> /\ destructuredPropName = "" THEN <<params[1].node>> ELSE <<>>

\* The binding nodes of the parameter at argIndex that take the translator
\* over (cli.ts 232-251 and 259-277), in the order they are recursed into.
ParamTargets(params, argIndex, destructuredPropName) ==
    IF argIndex < Len(params)
    THEN LET param == params[argIndex + 1] IN
         IF destructuredPropName # ""
         THEN IF param.pattern
              THEN LET es == param.elements
                       hit == {i \in 1..Len(es) : es[i].propertyName = destructuredPropName}
                       RECURSIVE pick(_)
                       pick(i) == IF i > Len(es) THEN <<>>
                                  ELSE (IF i \in hit THEN <<es[i].node>> ELSE <<>>) \o pick(i + 1)
                   IN  pick(1)
              ELSE <<>>
         ELSE <<param.node>>
    ELSE <<>>

\* handleArgumentPassing: the nodes findUsagesRecursive is called with.
handleArgumentPassing(callee, argIndex, destructuredPropName) ==
    LET symbol == Decls[callee]
        target == IF symbol.kind = "import" /\ symbol.target \in Callees
                  THEN Decls[symbol.target] ELSE symbol
    IN  IF symbol.kind = "none" THEN <<>>
        ELSE IF target.kind = "function"
        THEN ParamTargets(target.params, argIndex, destructuredPropName)
        ELSE IF target.kind = "variable" /\ target.fn
        THEN ParamTargets(target.params, argIndex, destructuredPropName)
        ELSE <<>>

\* A usage test that misses the rich calls.
IsUsage_DirectOnly(r) == r.kind = "call"

\* Whether the reference is a usage site (isDirect || isRich, cli.ts 142-149).
IsUsage(r) == r.kind \in {"call", "rich"}

\* Whether the property holding the reference forwards it (cli.ts 173-177):
\* getInitializer() of a shorthand property is undefined.
IsForwardedProperty(r) ==
    r.kind = "prop" /\ (r.name = "t" \/ (~r.short))

\* The calls of findUsagesRecursive one reference leads to (cli.ts 165-196).
Forwarded(r) ==
    IF r.kind = "arg" THEN handleArgumentPassing(r.callee, r.index, "")
    ELSE IF IsForwardedProperty(r) THEN handleArgumentPassing(r.callee, r.index, r.name)
    ELSE <<>>

Frame(node, namespace, refs, more) ==
    [node |-> node, namespace |-> namespace, refs |-> refs, more |-> more, calls |-> <<>>]

\* An entry that expands a node whether it was visited or not.
Enter_Revisit(node, namespace, stk, vis) ==
    [stack |-> <<Frame(node, namespace,
                       IF node \in LibNodes THEN LibRefs[node] ELSE <<>>,
                       IF node \in LibNodes THEN 0 ELSE MaxRefs)>> \o stk,
     visited |-> vis \cup {node}]

\* findUsagesRecursive entered for a node: a visited node returns at once.
Enter(node, namespace, stk, vis) ==
    IF node \in vis THEN [stack |-> stk, visited |-> vis]
    ELSE [stack |-> <<Frame(node, namespace,
                            IF node \in LibNodes THEN LibRefs[node] ELSE <<>>,
                            IF node \in LibNodes THEN 0 ELSE MaxRefs)>> \o stk,
          visited |-> vis \cup {node}]

(***************************************************************************)
(* cli.ts: main()                                                          *)
(***************************************************************************)
Top == stack[1]

\* All orders readdirSync may list the files of S in.
Orders(S) ==
    {q \in [1..Cardinality(S) -> S] : \A i, j \in 1..Cardinality(S) : q[i] = q[j] => i = j}

\* A test that never finds the keys missing.
NoKeys_Never(keys) == FALSE

\* cli.ts 77: allDefinedKeys.size === 0.
NoKeys(keys) == keys = {}

\* cli.ts 71-82: load the defined keys; none is fatal.
Load ==
    /\ pc = "load"
    /\ allDefinedKeys' = loadMessages(cache, files, DefaultDir, SourceLocale).keys
    /\ cache' = loadMessages(cache, files, DefaultDir, SourceLocale).cache
    /\ IF NoKeys(allDefinedKeys')
       THEN /\ pc' = "exited"
            /\ exitCode' = 1
            /\ filesLeft' = filesLeft
       ELSE /\ pc' = "files"
            /\ exitCode' = exitCode
            /\ filesLeft' = MaxFiles
    /\ UNCHANGED <<calls, previous, docVars, lintVars, files, mode, usedKeys, dynamicUsages, importsHook, hooksLeft,
                   callExpr, stack, visited, ref, reportVars>>

\* cli.ts 284-300: the next source file; one that does not import
\* useTranslations from next-intl is skipped.
SourceFile ==
    /\ pc = "files"
    /\ filesLeft > 0
    /\ filesLeft' = filesLeft - 1
    /\ \E imports \in BOOLEAN :
          /\ importsHook' = imports
          /\ pc' = IF imports THEN "calls" ELSE "files"
    /\ UNCHANGED <<calls, previous, docVars, cache, lintVars, files, mode, allDefinedKeys, usedKeys, dynamicUsages, hooksLeft,
                   callExpr, stack, visited, ref, exitCode, reportVars>>

\* A test that takes no argument of the hook call for dynamic.
IsDynamicNamespace_Never(arg) == FALSE

\* cli.ts 308-317: the first argument is there and is not a string literal.
IsDynamicNamespace(arg) == arg.a = "dyn"

\* cli.ts 302-326: the next call of useTranslations in the current file.
HookCall(hookShapes) ==
    /\ pc = "calls"
    /\ hooksLeft > 0
    /\ hooksLeft' = hooksLeft - 1
    /\ \E hook \in hookShapes :
          /\ callExpr' = hook
          /\ IF IsDynamicNamespace(hook.arg)
             THEN /\ dynamicUsages' = Append(dynamicUsages, DynamicNamespace(filesLeft))
                  /\ UNCHANGED <<stack, visited, pc>>
             ELSE /\ dynamicUsages' = dynamicUsages
                  /\ IF hook.ctx = "var"
                     THEN LET e == Enter("v", HookNamespace(hook), <<>>, {}) IN
                          /\ stack' = e.stack
                          /\ visited' = e.visited
                          /\ pc' = "refs"
                     ELSE UNCHANGED <<stack, visited, pc>>
    /\ ref' = NoRef
    /\ UNCHANGED <<calls, previous, docVars, cache, lintVars, files, mode, allDefinedKeys, usedKeys, filesLeft, importsHook,
                   exitCode, reportVars>>

\* The call expressions of the current file are exhausted.
EndCalls ==
    /\ pc = "calls"
    /\ pc' = "files"
    /\ callExpr' = NoHook
    /\ UNCHANGED <<calls, previous, docVars, cache, lintVars, files, mode, allDefinedKeys, usedKeys, dynamicUsages, filesLeft,
                   importsHook, hooksLeft, stack, visited, ref, exitCode, reportVars>>

\* cli.ts 125-197: one iteration of the loop over the references of the
\* node of the innermost call.
Reference(refShapes) ==
    /\ pc = "refs"
    /\ Top.calls = <<>>
    /\ \E r \in (IF Top.refs # <<>> THEN {Head(Top.refs)}
                 ELSE IF Top.more > 0 THEN refShapes ELSE {}) :
          /\ ref' = r
          /\ IF IsUsage(r)
             THEN /\ IF r.arg.a = "lit"
                     THEN /\ usedKeys' = usedKeys \cup {FullKey(Top.namespace, r.arg.k)}
                          /\ dynamicUsages' = dynamicUsages
                     ELSE /\ usedKeys' = usedKeys
                          /\ dynamicUsages' =
                                Append(dynamicUsages,
                                       DynamicKey(FileOf(Top.node, filesLeft), Top.namespace))
                  /\ stack' = [stack EXCEPT ![1].refs = IF Top.refs # <<>> THEN Tail(Top.refs) ELSE <<>>,
                                            ![1].more = IF Top.refs # <<>> THEN Top.more ELSE Top.more - 1]
             ELSE /\ UNCHANGED <<usedKeys, dynamicUsages>>
                  /\ stack' = [stack EXCEPT ![1].refs = IF Top.refs # <<>> THEN Tail(Top.refs) ELSE <<>>,
                                            ![1].more = IF Top.refs # <<>> THEN Top.more ELSE Top.more - 1,
                                            ![1].calls = Forwarded(r)]
    /\ UNCHANGED <<calls, previous, docVars, cache, lintVars, files, mode, pc, allDefinedKeys, filesLeft, importsHook, hooksLeft,
                   callExpr, visited, exitCode, reportVars>>

\* cli.ts 244, 249, 270, 275 with 112-113: findUsagesRecursive called for a
\* node handleArgumentPassing found.
Recurse ==
    /\ pc = "refs"
    /\ Top.calls # <<>>
    /\ LET e == Enter(Head(Top.calls), Top.namespace,
                      [stack EXCEPT ![1].calls = Tail(Top.calls)], visited)
       IN  /\ stack' = e.stack
           /\ visited' = e.visited
    /\ UNCHANGED <<calls, previous, docVars, cache, lintVars, files, mode, pc, allDefinedKeys, usedKeys, dynamicUsages, filesLeft,
                   importsHook, hooksLeft, callExpr, ref, exitCode, reportVars>>

\* The loop over the references of the innermost call is over: it returns.
Return ==
    /\ pc = "refs"
    /\ Top.calls = <<>>
    /\ Top.refs = <<>>
    /\ stack' = Tail(stack)
    /\ pc' = IF Tail(stack) = <<>> THEN "calls" ELSE "refs"
    /\ ref' = NoRef
    /\ UNCHANGED <<calls, previous, docVars, cache, lintVars, files, mode, allDefinedKeys, usedKeys, dynamicUsages, filesLeft,
                   importsHook, hooksLeft, callExpr, visited, exitCode, reportVars>>

\* cli.ts 332-350: the reconciler.
Unused(defined, used) == {k \in defined : k \notin used}

\* A missing set that keeps the defined keys.
Missing_All(defined, used) == used

Missing(defined, used) == {k \in used : k \notin defined}

Compare ==
    /\ pc = "files"
    /\ pc' = "report"
    /\ unusedKeys' = Unused(allDefinedKeys, usedKeys)
    /\ missingKeys' = Missing(allDefinedKeys, usedKeys)
    /\ UNCHANGED <<calls, previous, docVars, cache, lintVars, files, mode, allDefinedKeys, resolverVars, hasIssues, exitCode,
                   messageFiles, errors>>

\* A fix that does not look at the mode.
Fixes_AnyMode(m, unused) == unused # {}

\* cli.ts 378-385: there are unused keys and the mode is fix.
Fixes(m, unused) == unused # {} /\ m = "fix"

\* An exit code the missing keys do not set.
ReportExitCode_Kept(missing, current) == current

\* cli.ts 366-376: process.exitCode after the report of the missing keys.
ReportExitCode(missing, current) == IF missing # {} THEN 1 ELSE current

\* cli.ts 354-387: the report; missing keys set the exit code, unused keys
\* start the fix in fix mode.
Report ==
    /\ pc = "report"
    /\ exitCode' = ReportExitCode(missingKeys, exitCode)
    /\ hasIssues' = (missingKeys # {})
    /\ IF Fixes(mode, unusedKeys)
       THEN /\ pc' = "fix"
            /\ messageFiles' \in Orders({l \in Locales : files[l].exists})
       ELSE /\ pc' = "done"
            /\ messageFiles' = messageFiles
    /\ UNCHANGED <<calls, previous, docVars, cache, lintVars, files, mode, allDefinedKeys, resolverVars, unusedKeys, missingKeys, errors>>

\* cli.ts 394-413: one message file of fix mode; a file that does not parse
\* is reported and skipped.
FixFile ==
    /\ pc = "fix"
    /\ messageFiles # <<>>
    /\ LET file == Head(messageFiles) IN
       IF files[file].parses
       THEN /\ files' = [files EXCEPT ![file] =
                            WriteFile(files[file],
                                      RemoveKeys(files[file].doc, SortedSeq(unusedKeys)))]
            /\ errors' = errors
       ELSE /\ files' = files
            /\ errors' = errors \cup {file}
    /\ messageFiles' = Tail(messageFiles)
    /\ UNCHANGED <<calls, previous, docVars, cache, lintVars, mode, pc, allDefinedKeys, resolverVars, unusedKeys, missingKeys,
                   hasIssues, exitCode>>

\* cli.ts 414: every message file is processed.
FixDone ==
    /\ pc = "fix"
    /\ messageFiles = <<>>
    /\ pc' = "done"
    /\ UNCHANGED <<calls, previous, docVars, cache, lintVars, files, mode, allDefinedKeys, resolverVars, reportVars, exitCode>>

\* A run of the CLI over code made of the given hook calls and references.
Run(hookShapes, refShapes) ==
    \/ Load
    \/ SourceFile
    \/ HookCall(hookShapes)
    \/ EndCalls
    \/ Reference(refShapes)
    \/ Recurse
    \/ Return
    \/ Compare
    \/ Report
    \/ FixFile
    \/ FixDone

Next == Run(HookShapes, RefShapes)

\* The state main() starts in, for the message directory fs and source
\* files that hold the given number of hook calls.
Start(fs, m, hookCalls) ==
    /\ files = fs
    /\ mode = m
    /\ pc = "load"
    /\ allDefinedKeys = {}
    /\ usedKeys = {}
    /\ dynamicUsages = <<>>
    /\ filesLeft = 0
    /\ importsHook = FALSE
    /\ hooksLeft = hookCalls
    /\ callExpr = NoHook
    /\ stack = <<>>
    /\ visited = {}
    /\ ref = NoRef
    /\ unusedKeys = {}
    /\ missingKeys = {}
    /\ hasIssues = FALSE
    /\ exitCode = 0
    /\ messageFiles = <<>>
    /\ errors = {}
    /\ cache = [l \in Locales |-> NoEntry]
    /\ calls = [c \in Callers |-> NoCall]
    /\ previous = NoRun
    /\ lintLeft = 0
    /\ declLeft = 0
    /\ declarator = NoDeclarator
    /\ handled = Rules
    /\ definedKeys = Null
    /\ context = NoContext
    /\ reports = <<>>
    /\ NoDocument

Modes == {"check", "fix"}

\* Spec: every shape of code, over a check of {a: {b}} and a fix of {b, x}.
SpecRuns ==
    { <<(SegA :> Container((SegB :> Leaf(LeafValue)))), "check">>,
      <<(SegB :> Leaf(LeafValue)) @@ (SegX :> Leaf(LeafValue)), "fix">> }

Init ==
    \E run \in SpecRuns :
        Start([l \in Locales |-> IF l = SourceLocale THEN JsonFile(run[1]) ELSE AbsentFile],
              run[2], MaxHooks)

Spec == Init /\ [][Next]_vars

\* FixSpec: every message document of the bounds, with and without a dotted
\* property name, over code that holds one hook call and a few shapes of
\* references.
FixHooks == {Hook(a, "var", "", 0, "") : a \in {Lit(NsA), Lit(EmptyStr)}}
FixRefs == {Call(Lit(KeyB)), Call(Lit(SegA)), ArgOf("f", 0)}

\* A document of leaves only.
LeafDoc(names) == [n \in names |-> Leaf(LeafValue)]

\* The nested documents over two names, and each of them again with a leaf
\* named "a.b" and with a container named "" at the top level.
FixDocs ==
    LET plain == ObjectsOver({SegA, SegB}, MaxDepth)
    IN  plain \cup {SetProp(o, SegDotted, Leaf(LeafValue)) : o \in plain}
              \cup {SetProp(o, EmptyStr, Container(LeafDoc({SegB}))) : o \in plain}

SourceFiles == {AbsentFile, BadFile} \cup {JsonFile(doc) : doc \in FixDocs}

FixInit ==
    \E en \in SourceFiles, m \in Modes :
        \E de \in (IF m = "fix" THEN {AbsentFile, BadFile, en} ELSE {AbsentFile}) :
            Start([l \in Locales |-> IF l = SourceLocale THEN en ELSE de], m, 1)

FixNext == Run(FixHooks, FixRefs)

FixSpec == FixInit /\ [][FixNext]_vars

\* ForwardSpec: code that hands the translator on, as a bare argument at
\* every index and to every kind of callee, and as a property of every name,
\* shorthand or explicit, of an object-literal argument.
ForwardHooks == {Hook(a, "var", "", 0, "") : a \in HookArgs}
ForwardRefs ==
    {Call(Lit(KeyB))}
    \cup {ArgOf("f", i) : i \in ArgIndexes}
    \cup {ArgOf(c, 0) : c \in Callees}
    \cup {PropOf("g", 0, n, sh) : n \in {"t", "x", "z"}, sh \in BOOLEAN}
    \cup {PropOf(c, 0, "t", TRUE) : c \in {"f", "h", "k"}}

ForwardNext == Run(ForwardHooks, ForwardRefs)

ForwardSpec == Init /\ [][ForwardNext]_vars

\* UsageSpec: code whose references are calls, rich calls, property
\* accesses that are not called, other references and forwardings, with every
\* kind of first argument.
UsageHooks == {Hook(a, ctx, "", 0, "") : a \in HookArgs, ctx \in {"var", "expr"}}
UsageRefs ==
    {Call(a) : a \in KeyArgs} \cup {Rich(a) : a \in KeyArgs}
        \cup {Member, Other, ArgOf("f", 0), ArgOf("f", 1), PropOf("g", 0, "t", TRUE)}

UsageNext == Run(UsageHooks, UsageRefs)

UsageSpec == Init /\ [][UsageNext]_vars

\* LocaleSpec: fix mode over a directory of two locale files; the other
\* locale file is absent, does not parse, or holds any document of the
\* bounds, the one of the source locale or another, or one with a leaf named
\* "a.b".
LocaleSources ==
    {LeafDoc({SegA, SegB}),
     (SegA :> Container(LeafDoc({SegA, SegB}))),
     (SegA :> Container(LeafDoc({SegB}))) @@ LeafDoc({SegB})}
LocaleFiles ==
    {AbsentFile, BadFile} \cup {JsonFile(doc) : doc \in ObjectsOver({SegA, SegB}, MaxDepth)}
        \cup {JsonFile(LeafDoc({SegDotted})), JsonFile(LeafDoc({SegDotted, SegB}))}

LocaleInit ==
    \E en \in LocaleSources, de \in LocaleFiles :
        Start([l \in Locales |-> IF l = SourceLocale THEN JsonFile(en) ELSE de], "fix", 1)

LocaleNext == Run(FixHooks, FixRefs)

LocaleSpec == LocaleInit /\ [][LocaleNext]_vars

\* CycleSpec: code whose functions forward the translator to themselves
\* (k calls k) and to each other (f calls h, h calls f). The traversal is a
\* sequential loop: a step of it that can be taken is taken.
CycleHooks == {Hook(a, "var", "", 0, "") : a \in {Lit(NsA), Dyn}}
CycleRefs ==
    {Call(Lit(KeyB)), ArgOf("f", 1), ArgOf("h", 0), PropOf("k", 0, "t", TRUE)}

CycleNext == Run(CycleHooks, CycleRefs)

Traverse == Reference(CycleRefs) \/ Recurse \/ Return

CycleSpec == Init /\ [][CycleNext]_vars /\ WF_vars(Traverse)

(***************************************************************************)
(* The ESLint rules                                                        *)
(***************************************************************************)
\* The state a handler works on.
RuleState(keys, c, reps) == [definedKeys |-> keys, cache |-> c, reports |-> reps]

\* A value that || passes on: neither undefined nor the empty string.
IsSet(field) == field.given /\ field.value # ""

\* A resolution in which the shared setting overrides the rule option.
Resolve_SettingFirst(option, setting, default) ==
    IF IsSet(setting) THEN setting.value
    ELSE IF IsSet(option) THEN option.value
    ELSE default

\* no-missing-keys.ts 38-40: option || setting || default.
Resolve(option, setting, default) ==
    IF IsSet(option) THEN option.value
    ELSE IF IsSet(setting) THEN setting.value
    ELSE default

\* no-missing-keys.ts 38-40: the constants create computes from its context.
messagesDir ==
    Resolve(context.options.messagesDir, context.settings.messagesDir, DefaultDir)
sourceLocale ==
    Resolve(context.options.sourceLocale, context.settings.sourceLocale,
            SourceLocale)

\* no-missing-keys.ts 45-50: the keys are loaded at the first call.
getKeys(st, fs) ==
    IF st.definedKeys.isNull
    THEN LET r == loadMessages(st.cache, fs, messagesDir, sourceLocale)
         IN  [st EXCEPT !.definedKeys = KeySet(r.keys), !.cache = r.cache]
    ELSE st

\* Both rules: the reference is the callee of a call (parent is a
\* CallExpression whose callee is the identifier).
IsCallee(r) == r.kind = "call"

\* Both rules: there is a first argument, a Literal whose value is a string.
IsStringLiteral(arg) == arg.a = "lit"

\* no-missing-keys.ts 62-69: the namespace of the declarator.
RuleNamespace(d) == IF IsStringLiteral(d.arg) THEN d.arg.k ELSE EmptyStr

\* A full key of the rule that ignores the namespace.
fullKey_Unqualified(namespace, key) == key

\* no-missing-keys.ts 95.
fullKey(namespace, key) ==
    IF Truthy(namespace) THEN DotJoin(namespace, key) ELSE key

\* meta.messages of the two rules, in the pieces around the placeholder.
messages ==
    [missingKey |-> <<"Missing translation key: '", "{{key}}", "'">>,
     dynamicKey |-> <<"Dynamic keys cannot be statically analyzed.">>]

\* no-missing-keys.ts 99-105: the problem reported at the argument of the
\* reference at index node.
missingKey(node, key) == [node |-> node, messageId |-> "missingKey", key |-> key]

\* no-dynamic-keys.ts 44-47.
dynamicKey(node) == [node |-> node, messageId |-> "dynamicKey", key |-> EmptyStr]

\* no-missing-keys.ts 77-109: variable.references.forEach from index i on.
RECURSIVE CheckReferences(_, _, _, _, _)
CheckReferences(refs, i, namespace, fs, st) ==
    IF i > Len(refs) THEN st
    ELSE IF IsCallee(refs[i]) /\ IsStringLiteral(refs[i].arg)
    THEN LET key == fullKey(namespace, refs[i].arg.k)
             loaded == getKeys(st, fs)
         IN  CheckReferences(refs, i + 1, namespace, fs,
                IF key \notin loaded.definedKeys.keys
                THEN [loaded EXCEPT !.reports = Append(@, missingKey(i, key))]
                ELSE loaded)
    ELSE CheckReferences(refs, i + 1, namespace, fs, st)

\* A test that takes every Literal for a string literal.
IsDynamicArgument_NonLiteral(arg) == arg.a = "dyn"

\* no-dynamic-keys.ts 40-43: a first argument that is not a string literal.
IsDynamicArgument(arg) == arg.a # "none" /\ ~IsStringLiteral(arg)

\* no-dynamic-keys.ts 31-51: variable.references.forEach from index i on.
RECURSIVE WarnReferences(_, _, _)
WarnReferences(refs, i, reps) ==
    IF i > Len(refs) THEN reps
    ELSE WarnReferences(refs, i + 1,
            IF IsCallee(refs[i]) /\ IsDynamicArgument(refs[i].arg)
            THEN Append(reps, dynamicKey(i))
            ELSE reps)

\* Both rules: the declarator is initialised by a call of the identifier
\* useTranslations and declares a variable.
DeclaresTranslator(d) == d.isHook /\ d.declared > 0

\* ESLint starts the lint of the next source file: create(context) of
\* no-missing-keys.ts 34-50 leaves definedKeys null.
Create(contexts) ==
    /\ pc = "lint"
    /\ lintLeft > 0
    /\ declarator = NoDeclarator
    /\ lintLeft' = lintLeft - 1
    /\ \E c \in contexts : context' = c
    /\ declLeft' = MaxHooks
    /\ declarator' = NoDeclarator
    /\ definedKeys' = Null
    /\ reports' = <<>>
    /\ UNCHANGED <<calls, previous, docVars, cache, handled, files, mode, pc, allDefinedKeys, resolverVars,
                   reportVars, exitCode>>

\* The traversal reaches the next VariableDeclarator of the file.
VariableDeclarator(hookArgs, refShapes) ==
    /\ pc = "lint"
    /\ declLeft > 0
    /\ declarator = NoDeclarator
    /\ declLeft' = declLeft - 1
    /\ \E isHook \in BOOLEAN, arg \in hookArgs, declared \in {0, 1},
          n \in 0..MaxRefs :
          \E refs \in [1..n -> refShapes] :
             /\ isHook \/ (arg = NoArg /\ declared = 1)
             /\ declarator' = Declarator(isHook, arg, declared, refs)
    /\ handled' = {}
    /\ reports' = <<>>
    /\ UNCHANGED <<calls, previous, docVars, context,
                   cache, lintLeft, definedKeys, files, mode, pc, allDefinedKeys,
                   resolverVars, reportVars, exitCode>>

\* no-missing-keys.ts 53-112: the handler of the declarator.
NoMissingKeys ==
    /\ pc = "lint"
    /\ "no-missing-keys" \notin handled
    /\ handled' = handled \cup {"no-missing-keys"}
    /\ LET st == IF DeclaresTranslator(declarator)
                 THEN CheckReferences(declarator.refs, 1, RuleNamespace(declarator), files,
                                      RuleState(definedKeys, cache, reports))
                 ELSE RuleState(definedKeys, cache, reports)
       IN  /\ definedKeys' = st.definedKeys
           /\ cache' = st.cache
           /\ reports' = st.reports
    /\ UNCHANGED <<calls, previous, docVars, context,
                   lintLeft, declLeft, declarator, files, mode, pc, allDefinedKeys,
                   resolverVars, reportVars, exitCode>>

\* no-dynamic-keys.ts 20-54: the handler of the declarator.
NoDynamicKeys ==
    /\ pc = "lint"
    /\ "no-dynamic-keys" \notin handled
    /\ handled' = handled \cup {"no-dynamic-keys"}
    /\ reports' = IF DeclaresTranslator(declarator)
                  THEN WarnReferences(declarator.refs, 1, reports)
                  ELSE reports
    /\ UNCHANGED <<calls, previous, docVars, context,
                   cache, lintLeft, declLeft, declarator, definedKeys, files, mode, pc,
                   allDefinedKeys, resolverVars, reportVars, exitCode>>

\* The traversal leaves the declarator once the handlers of both rules
\* have run; ESLint has taken the problems over.
Leave ==
    /\ pc = "lint"
    /\ declarator # NoDeclarator
    /\ handled = Rules
    /\ declarator' = NoDeclarator
    /\ reports' = <<>>
    /\ UNCHANGED <<calls, previous, docVars, context,
                   cache, lintLeft, declLeft, handled, definedKeys, files, mode, pc,
                   allDefinedKeys, resolverVars, reportVars, exitCode>>

\* RuleSpec: ESLint lints source files with both rules, in one process,
\* over one message directory.
RuleDirs ==
    {AbsentFile, BadFile, JsonFile(EmptyObj),
     JsonFile((SegA :> Container(LeafDoc({SegB})))),
     JsonFile(LeafDoc({SegB, SegX}))}

\* The state before the first lint, over the message files fs.
RuleStart(fs) ==
    /\ files = fs
    /\ mode = "check"
    /\ pc = "lint"
    /\ allDefinedKeys = {}
    /\ usedKeys = {}
    /\ dynamicUsages = <<>>
    /\ filesLeft = 0
    /\ importsHook = FALSE
    /\ hooksLeft = 0
    /\ callExpr = NoHook
    /\ stack = <<>>
    /\ visited = {}
    /\ ref = NoRef
    /\ unusedKeys = {}
    /\ missingKeys = {}
    /\ hasIssues = FALSE
    /\ exitCode = 0
    /\ messageFiles = <<>>
    /\ errors = {}
    /\ cache = [l \in Locales |-> NoEntry]
    /\ calls = [c \in Callers |-> NoCall]
    /\ previous = NoRun
    /\ lintLeft = MaxFiles
    /\ declLeft = 0
    /\ declarator = NoDeclarator
    /\ handled = Rules
    /\ definedKeys = Null
    /\ context = NoContext
    /\ reports = <<>>
    /\ NoDocument

RuleInit ==
    \E en \in RuleDirs :
        RuleStart([l \in Locales |-> IF l = SourceLocale THEN en ELSE AbsentFile])

\* The lint of source files with the contexts and the code given.
Lint(contexts, hookArgs, refShapes) ==
    \/ Create(contexts)
    \/ VariableDeclarator(hookArgs, refShapes)
    \/ NoMissingKeys
    \/ NoDynamicKeys
    \/ Leave

RuleNext == Lint({NoContext}, RuleHookArgs, RuleRefShapes)

RuleSpec == RuleInit /\ [][RuleNext]_vars

\* ConfigSpec: the lint under every configuration of the two fields, over a
\* directory whose two locale files hold different keys.
DirFields == {Undefined, Given(""), Given(DefaultDir), Given(CustomDir)}
LocaleFields == {Undefined, Given(""), Given(SourceLocale), Given(OtherLocale)}
Contexts ==
    {Context(NextIntlOptions(od, ol), NextIntlOptions(sd, sl)) :
        od \in DirFields, ol \in LocaleFields,
        sd \in DirFields, sl \in LocaleFields}
ConfigFiles ==
    [l \in Locales |-> IF l = SourceLocale THEN JsonFile(LeafDoc({SegB}))
                       ELSE JsonFile(LeafDoc({SegX}))]
ConfigRefShapes == {Call(Lit(KeyB)), Call(Lit(KeyX))}

ConfigInit == RuleStart(ConfigFiles)

ConfigNext == Lint(Contexts, {NoArg}, ConfigRefShapes)

ConfigSpec == ConfigInit /\ [][ConfigNext]_vars

\* DegradedSpec: the CLI and the rules, each in a process of its own, over a
\* source-locale file that is absent, does not parse, or holds b and x.
DegradedFiles == {AbsentFile, BadFile, JsonFile(LeafDoc({SegB, SegX}))}
DegradedHookArgs == {NoArg, Lit(NsA)}
DegradedRefs == {Call(Lit(KeyB)), Call(Lit(KeyX)), Call(Dyn), Rich(Lit(KeyB))}

DegradedInit ==
    \E en \in DegradedFiles :
        LET fs == [l \in Locales |-> IF l = SourceLocale THEN en ELSE AbsentFile]
        IN  \/ \E m \in Modes : Start(fs, m, 1)
            \/ RuleStart(fs)

DegradedNext ==
    \/ Run(FixHooks, FixRefs)
    \/ Lint({NoContext}, DegradedHookArgs, DegradedRefs)

DegradedSpec == DegradedInit /\ [][DegradedNext]_vars

(***************************************************************************)
(* deleteKey and flattenKeys on their own                                  *)
(***************************************************************************)
\* The documents over names with at most n properties, at any depth.
RECURSIVE DocsOver(_, _, _)
DocsOver(names, rest, n) ==
    IF n = 0 \/ rest = {} THEN {EmptyObj}
    ELSE LET name == CHOOSE x \in rest : TRUE
             others == rest \ {name}
         IN  DocsOver(names, others, n)
             \cup UNION { UNION { {SetProp(o, name, val) : o \in DocsOver(names, others, n - 1 - k)}
                                  : val \in (IF k = 0 THEN {Leaf(LeafValue)} ELSE {})
                                            \cup {Container(kids) : kids \in DocsOver(names, names, k)} }
                         : k \in 0..(n - 1) }

\* The paths over names of at most n segments.
RECURSIVE PathsOver(_, _)
PathsOver(names, n) ==
    IF n = 0 THEN {}
    ELSE {<<x>> : x \in names}
         \cup {<<x>> \o p : x \in names, p \in PathsOver(names, n - 1)}

\* The documents the functions are applied to: those of two plain names and
\* the leaf-only ones of a dotted and an empty name.
PureDocs ==
    DocsOver({SegA, SegB}, {SegA, SegB}, MaxNodes)
        \cup DocsOver({SegA, SegDotted}, {SegA, SegDotted}, MaxNodes - 1)
        \cup DocsOver({SegA, EmptyStr}, {SegA, EmptyStr}, MaxNodes - 1)

PurePaths == PathsOver({SegA, SegB}, MaxNodes)

\* cli.ts 17-32: one call deleteKey(content, pathParts).
DeleteKey ==
    /\ pc = "functions"
    /\ \E pathParts \in PurePaths :
          /\ lastPath' = pathParts
          /\ document' = deleteKey(document, pathParts).obj
          /\ emptied' = deleteKey(document, pathParts).emptied
    /\ UNCHANGED <<calls, previous, original, flatKeys, files, mode, pc, allDefinedKeys, resolverVars,
                   reportVars, exitCode, cache, lintVars>>

\* core.ts 7-19: one call flattenKeys(json).
FlattenKeys ==
    /\ pc = "functions"
    /\ flatKeys' = flattenKeys(document, EmptyStr)
    /\ UNCHANGED <<calls, previous, original, document, lastPath, emptied, files, mode, pc,
                   allDefinedKeys, resolverVars, reportVars, exitCode, cache, lintVars>>

PureInit ==
    /\ \E d \in PureDocs :
          /\ original = d
          /\ document = d
    /\ lastPath = <<>>
    /\ emptied = FALSE
    /\ flatKeys = {}
    /\ files = [l \in Locales |-> AbsentFile]
    /\ mode = "check"
    /\ pc = "functions"
    /\ allDefinedKeys = {}
    /\ usedKeys = {}
    /\ dynamicUsages = <<>>
    /\ filesLeft = 0
    /\ importsHook = FALSE
    /\ hooksLeft = 0
    /\ callExpr = NoHook
    /\ stack = <<>>
    /\ visited = {}
    /\ ref = NoRef
    /\ unusedKeys = {}
    /\ missingKeys = {}
    /\ hasIssues = FALSE
    /\ exitCode = 0
    /\ messageFiles = <<>>
    /\ errors = {}
    /\ cache = [l \in Locales |-> NoEntry]
    /\ calls = [c \in Callers |-> NoCall]
    /\ previous = NoRun
    /\ lintLeft = 0
    /\ declLeft = 0
    /\ declarator = NoDeclarator
    /\ handled = Rules
    /\ definedKeys = Null
    /\ context = NoContext
    /\ reports = <<>>

PureNext == DeleteKey \/ FlattenKeys

PureSpec == PureInit /\ [][PureNext]_vars

(***************************************************************************)
(* The CLI run twice                                                       *)
(***************************************************************************)
\* RerunSpec: the CLI is run in either mode, and then run again, in either
\* mode, in a new process over the message files the first run left. The
\* source code is the same: the references the second run walks give the
\* used keys of the first run.
RerunHooks == {Hook(a, "var", "", 0, "") : a \in {Lit(NsA), Lit(EmptyStr)}}
RerunRefs == {Call(Lit(KeyB)), Call(Lit(SegA))}
RerunDocs ==
    {LeafDoc({SegB}),
     LeafDoc({SegA, SegB}),
     (SegA :> Container(LeafDoc({SegB}))),
     (SegA :> Container(LeafDoc({SegB}))) @@ LeafDoc({SegB}),
     LeafDoc({SegDotted, SegB})}

\* The first run is over: the second one starts (cli.ts 34-69). The
\* process is new, so the cache of core.ts is empty.
Rerun ==
    /\ pc \in {"done", "exited"}
    /\ ~previous.ran
    /\ previous' = RunEnd(TRUE, mode, files, usedKeys, unusedKeys, missingKeys, exitCode)
    /\ mode' \in Modes
    /\ pc' = "load"
    /\ allDefinedKeys' = {}
    /\ usedKeys' = {}
    /\ dynamicUsages' = <<>>
    /\ filesLeft' = 0
    /\ importsHook' = FALSE
    /\ hooksLeft' = MaxHooks
    /\ callExpr' = NoHook
    /\ stack' = <<>>
    /\ visited' = {}
    /\ ref' = NoRef
    /\ unusedKeys' = {}
    /\ missingKeys' = {}
    /\ hasIssues' = FALSE
    /\ exitCode' = 0
    /\ messageFiles' = <<>>
    /\ errors' = {}
    /\ cache' = [l \in Locales |-> NoEntry]
    /\ UNCHANGED <<calls, docVars, lintVars, files>>

RerunInit ==
    \E en \in RerunDocs, de \in {AbsentFile, BadFile, JsonFile(LeafDoc({SegA, SegB}))},
       m \in Modes :
        Start([l \in Locales |-> IF l = SourceLocale THEN JsonFile(en) ELSE de], m, MaxHooks)

RerunNext ==
    \/ Load
    \/ SourceFile
    \/ HookCall(RerunHooks)
    \/ EndCalls
    \/ (Reference(RerunRefs) /\ (previous.ran => usedKeys' \subseteq previous.usedKeys))
    \/ Return
    \/ (Compare /\ (previous.ran => usedKeys = previous.usedKeys))
    \/ Report
    \/ FixFile
    \/ FixDone
    \/ Rerun

RerunSpec == RerunInit /\ [][RerunNext]_vars

(***************************************************************************)
(* ESLint and the CLI over the same source file                            *)
(***************************************************************************)
\* SameFileSpec: a source file whose declarators are const t =
\* useTranslations() or useTranslations('a') followed by calls t('k') and
\* t.rich('k') is linted, and then the CLI checks the same file: the hook
\* call and the references the resolver walks are those of the declarator
\* the rule stood at.
SameFileHookArgs == {NoArg, Lit(NsA)}
SameFileRefs == {Call(Lit(KeyB)), Call(Lit(KeyX)), Rich(Lit(KeyB)), Rich(Lit(KeyX))}
SameFileDirs ==
    {JsonFile((SegA :> Container(LeafDoc({SegB})))),
     JsonFile(LeafDoc({SegB})),
     JsonFile((DefaultNs :> Container(LeafDoc({SegB}))))}

\* The references of the declarator the resolver has walked so far.
Walked == MaxRefs - Top.more

\* The reference of the declarator the loop of findUsagesRecursive is at.
NextRefs ==
    IF stack # <<>> /\ Walked < Len(declarator.refs)
    THEN {declarator.refs[Walked + 1]}
    ELSE {}

\* The lint is over with a declarator at hand: the CLI is started over the
\* same directory (cli.ts 34-69).
StartCli ==
    /\ pc = "lint"
    /\ declarator # NoDeclarator
    /\ handled = Rules
    /\ pc' = "load"
    /\ hooksLeft' = MaxHooks
    /\ UNCHANGED <<calls, previous, docVars, cache, lintVars, files, mode, allDefinedKeys, usedKeys,
                   dynamicUsages, filesLeft, importsHook, callExpr, stack, visited, ref,
                   reportVars, exitCode>>

SameFileInit == \E en \in SameFileDirs : RuleStart([l \in Locales |-> IF l = SourceLocale THEN en ELSE AbsentFile])

SameFileNext ==
    \/ Create({NoContext})
    \/ (VariableDeclarator(SameFileHookArgs, SameFileRefs)
          /\ declarator'.isHook /\ declarator'.declared = 1)
    \/ NoMissingKeys
    \/ NoDynamicKeys
    \/ StartCli
    \/ Load
    \/ (SourceFile /\ importsHook')
    \/ HookCall({Hook(declarator.arg, "var", "", 0, "")})
    \/ (EndCalls /\ hooksLeft = 0)
    \/ Reference(NextRefs)
    \/ (Return /\ Walked = Len(declarator.refs))
    \/ (Compare /\ filesLeft = 0)
    \/ Report

SameFileSpec == SameFileInit /\ [][SameFileNext]_vars

(***************************************************************************)
(* loadMessages in a process that outlives the writes of the file          *)
(***************************************************************************)
\* What a write leaves in the source-locale file: text that does not parse,
\* or a document.
Contents ==
    {BadFile, JsonFile(EmptyObj), JsonFile(LeafDoc({SegB})),
     JsonFile(LeafDoc({SegB, SegX})),
     JsonFile((SegA :> Container(LeafDoc({SegB}))))}

\* The file after a write of the content: the modification time moves on.
Rewrite(file, content) == [content EXCEPT !.mtimeMs = file.mtimeMs + 1]

\* The source-locale file is written, by an editor or by the fix of the CLI.
WriteSource ==
    /\ pc \in {"written", "loaded"}
    /\ files[SourceLocale].mtimeMs < MaxWrites
    /\ \E content \in Contents :
          files' = [files EXCEPT ![SourceLocale] = Rewrite(files[SourceLocale], content)]
    /\ pc' = "written"
    /\ UNCHANGED <<calls, previous, docVars, lintVars, mode, allDefinedKeys, resolverVars, reportVars,
                   exitCode, cache>>

\* loadMessages(cwd, messagesDir, sourceLocale) is called.
LoadMessages ==
    /\ pc \in {"written", "loaded"}
    /\ allDefinedKeys' = loadMessages(cache, files, DefaultDir, SourceLocale).keys
    /\ cache' = loadMessages(cache, files, DefaultDir, SourceLocale).cache
    /\ pc' = "loaded"
    /\ UNCHANGED <<calls, previous, docVars, lintVars, files, mode, resolverVars, reportVars, exitCode>>

CacheInit ==
    /\ \E content \in Contents \cup {AbsentFile} :
          files = [l \in Locales |-> IF l = SourceLocale THEN content ELSE AbsentFile]
    /\ mode = "check"
    /\ pc = "written"
    /\ allDefinedKeys = {}
    /\ usedKeys = {}
    /\ dynamicUsages = <<>>
    /\ filesLeft = 0
    /\ importsHook = FALSE
    /\ hooksLeft = 0
    /\ callExpr = NoHook
    /\ stack = <<>>
    /\ visited = {}
    /\ ref = NoRef
    /\ unusedKeys = {}
    /\ missingKeys = {}
    /\ hasIssues = FALSE
    /\ exitCode = 0
    /\ messageFiles = <<>>
    /\ errors = {}
    /\ cache = [l \in Locales |-> NoEntry]
    /\ calls = [c \in Callers |-> NoCall]
    /\ previous = NoRun
    /\ lintLeft = 0
    /\ declLeft = 0
    /\ declarator = NoDeclarator
    /\ handled = Rules
    /\ definedKeys = Null
    /\ context = NoContext
    /\ reports = <<>>
    /\ NoDocument

CacheNext == WriteSource \/ LoadMessages

CacheSpec == CacheInit /\ [][CacheNext]_vars

(***************************************************************************)
(* Properties of the CLI                                                   *)
(***************************************************************************)
\* The step is one iteration of the loop over the references (Reference).
ReferenceStep ==
    /\ pc = "refs"
    /\ pc' = "refs"
    /\ Top.calls = <<>>
    /\ Len(stack') = Len(stack)

\* The reference of the step is a direct call t('k') of the hook variable.
DirectLiteralCall ==
    /\ ReferenceStep
    /\ Top.node = "v"
    /\ ref'.kind = "call"
    /\ ref'.arg.a = "lit"


\* C1 as stated: for a translator bound by a hook call with one string-literal
\* argument ns, a direct call with a string-literal argument k adds exactly
\* the key ns + "." + k to the used-key set.
C1_AnyLiteralNamespace ==
    [][(DirectLiteralCall /\ callExpr.arg.a = "lit")
          => usedKeys' = usedKeys \cup {DotJoin(callExpr.arg.k, ref'.arg.k)}]_vars

\* C1 amended: the same for a non-empty string literal ns, while for the
\* empty literal '' the key added is k alone; and with defined keys {a.b}
\* (common.greeting), used = {a.b} gives missing = {} and unused = {}.
C1_LiteralNamespace ==
    [][/\ (DirectLiteralCall /\ callExpr.arg.a = "lit")
            => /\ dynamicUsages' = dynamicUsages
               /\ usedKeys' = usedKeys \cup
                     {IF callExpr.arg.k # EmptyStr
                      THEN DotJoin(callExpr.arg.k, ref'.arg.k)
                      ELSE ref'.arg.k}
       /\ (pc' = "done" /\ allDefinedKeys' = {DotJoin(NsA, KeyB)}
                        /\ usedKeys' = {DotJoin(NsA, KeyB)})
            => (missingKeys' = {} /\ unusedKeys' = {} /\ exitCode' = 0)]_vars

C1_Witness ==
    /\ pc = "refs"
    /\ callExpr = Hook(Lit(NsA), "var", "", 0, "")
    /\ ref = Call(Lit(KeyB))
    /\ allDefinedKeys = {<<"a", ".", "b">>}
    /\ usedKeys = {<<"a", ".", "b">>}

\* C2: for a translator bound by a hook call with zero arguments, a direct
\* call with a string-literal argument k adds just k, without a prefix.
C2_DefaultNamespaceUnprefixed ==
    [][(DirectLiteralCall /\ callExpr.arg.a = "none")
          => usedKeys' = usedKeys \cup {ref'.arg.k}]_vars

\* C3: a direct or rich call whose first argument is absent or not a string
\* literal appends one Dynamic Usage Record, for the namespace of the
\* binding, and adds nothing to the used-key set.
C3_DynamicCall ==
    [][(ReferenceStep /\ ref'.kind \in {"call", "rich"} /\ ref'.arg.a # "lit")
          => /\ usedKeys' = usedKeys
             /\ Len(dynamicUsages') = Len(dynamicUsages) + 1
             /\ SubSeq(dynamicUsages', 1, Len(dynamicUsages)) = dynamicUsages
             /\ dynamicUsages'[Len(dynamicUsages')].what = "key"
             /\ dynamicUsages'[Len(dynamicUsages')].namespace = Top.namespace]_vars

C3_Witness ==
    /\ pc = "refs"
    /\ ref = Rich(Dyn)
    /\ Len(dynamicUsages) = 1
    /\ usedKeys = {}

\* C4: the reconciler computes missing = used minus defined and unused =
\* defined minus used; the two are disjoint and the step changes neither
\* the used nor the defined keys.
C4_Reconciler ==
    [][(pc = "files" /\ pc' = "report")
          => /\ missingKeys' = usedKeys \ allDefinedKeys
             /\ unusedKeys' = allDefinedKeys \ usedKeys
             /\ missingKeys' \cap unusedKeys' = {}
             /\ usedKeys' = usedKeys
             /\ allDefinedKeys' = allDefinedKeys]_vars

C4_Witness ==
    /\ pc = "report"
    /\ missingKeys # {}
    /\ unusedKeys # {}
    /\ usedKeys \cap allDefinedKeys # {}

\* C5: a run that found defined keys ends with exit code 1 if and only if a
\* used key is not defined, in check mode and in fix mode; unused keys and
\* dynamic usages do not change the exit code.
C5_ExitCode ==
    pc = "done" =>
        /\ exitCode \in {0, 1}
        /\ (exitCode = 1) <=> (usedKeys \ allDefinedKeys # {})

C5_Witness ==
    /\ pc = "done"
    /\ mode = "fix"
    /\ exitCode = 0
    /\ unusedKeys # {}
    /\ dynamicUsages # <<>>
    /\ usedKeys # {}

\* The paths, as sequences of property names, of the leaves of a document.
RECURSIVE LeafPaths(_)
LeafPaths(obj) ==
    UNION { IF obj[n].leaf THEN {<<n>>}
            ELSE {<<n>> \o p : p \in LeafPaths(obj[n].kids)}
          : n \in DOMAIN obj }

\* The paths of the containers of a document that hold nothing.
RECURSIVE EmptyContainers(_)
EmptyContainers(obj) ==
    UNION { IF obj[n].leaf THEN {}
            ELSE IF obj[n].kids = EmptyObj THEN {<<n>>}
            ELSE {<<n>> \o p : p \in EmptyContainers(obj[n].kids)}
          : n \in DOMAIN obj }

\* The property names a document uses, at any depth.
RECURSIVE NamesOf(_)
NamesOf(obj) ==
    (DOMAIN obj) \cup
    UNION { IF obj[n].leaf THEN {} ELSE NamesOf(obj[n].kids) : n \in DOMAIN obj }

RECURSIVE ValueAt(_, _)
ValueAt(obj, path) ==
    IF Len(path) = 1 THEN obj[path[1]] ELSE ValueAt(obj[path[1]].kids, Tail(path))

\* The dot-path of a leaf: its property names joined with ".".
RECURSIVE JoinPath(_)
JoinPath(path) ==
    IF Len(path) = 1 THEN path[1] ELSE DotJoin(path[1], JoinPath(Tail(path)))

HasDot(name) == \E i \in 1..Len(name) : name[i] = Dot

\* The step writes the source-locale document in fix mode.
SourceFixStep ==
    /\ pc = "fix"
    /\ messageFiles # <<>>
    /\ Head(messageFiles) = SourceLocale
    /\ messageFiles' = Tail(messageFiles)

\* The document new holds exactly the leaves of old whose dot-path is used,
\* with their values, and no container the deletions emptied.
KeepsUsedLeaves(old, new, used) ==
    /\ LeafPaths(new) = {p \in LeafPaths(old) : JoinPath(p) \in used}
    /\ \A p \in LeafPaths(new) : ValueAt(new, p) = ValueAt(old, p)
    /\ EmptyContainers(new) \subseteq EmptyContainers(old)

\* C6 as stated: after a run in fix mode the persisted source-locale
\* document holds exactly the leaves of the original document whose dot-path
\* is used, with their values, no unused leaf and no container left empty
\* by the deletions.
C6_FixKeepsUsedLeaves ==
    [][/\ SourceFixStep
            => KeepsUsedLeaves(files[SourceLocale].doc, files'[SourceLocale].doc, usedKeys)
       /\ (pc' = "done" /\ mode = "fix")
            => \A p \in LeafPaths(files'[SourceLocale].doc) : JoinPath(p) \in usedKeys']_vars

PlainName(name) == name # EmptyStr /\ ~HasDot(name)

\* C6 amended: the same for a source-locale document all of whose property
\* names are non-empty and hold no ".".
C6_FixKeepsUsedLeavesOfPlainNames ==
    [][(\A n \in NamesOf(files[SourceLocale].doc) : PlainName(n))
         => /\ SourceFixStep
                 => KeepsUsedLeaves(files[SourceLocale].doc, files'[SourceLocale].doc,
                                    usedKeys)
            /\ (pc' = "done" /\ mode = "fix")
                 => \A p \in LeafPaths(files'[SourceLocale].doc) :
                       JoinPath(p) \in usedKeys']_vars

\* {a: {a, b}} (common: {unused, greeting}) with used {a.b} became {a: {b}}.
C6_Witness ==
    /\ pc = "done"
    /\ mode = "fix"
    /\ allDefinedKeys = {<<"a", ".", "a">>, <<"a", ".", "b">>}
    /\ usedKeys = {<<"a", ".", "b">>}
    /\ files[SourceLocale].doc = (SegA :> Container(LeafDoc({SegB})))

\* The string literals k of the calls t('k') among the references of a node.
LiteralCallsOf(node) ==
    {LibRefs[node][i].arg.k :
        i \in {j \in 1..Len(LibRefs[node]) :
                 LibRefs[node][j].kind = "call" /\ LibRefs[node][j].arg.a = "lit"}}

\* C7: when useTranslations('ns') is a positional argument of a call f(...)
\* of a function f(t) whose body calls t('x'), the used-key set holds ns.x
\* once the loop of main has passed the hook call.
C7_HookAsArgument ==
    (/\ pc = "calls"
     /\ callExpr.ctx = "arg"
     /\ callExpr.arg.a = "lit"
     /\ callExpr.arg.k # EmptyStr)
    => \A x \in LiteralCallsOf(Decls[callExpr.callee].params[callExpr.index + 1].node) :
          DotJoin(callExpr.arg.k, x) \in usedKeys

\* C8: when useTranslations('ns') is the value of property t of an object
\* literal argument of a call f({t: ...}) of a function f({t}) whose body
\* calls t('x'), the used-key set holds ns.x once the loop of main has passed
\* the hook call.
C8_HookAsProperty ==
    (/\ pc = "calls"
     /\ callExpr.ctx = "prop"
     /\ callExpr.arg.a = "lit"
     /\ callExpr.arg.k # EmptyStr)
    => \A e \in {el \in {Decls[callExpr.callee].params[callExpr.index + 1].elements[i] :
                            i \in 1..Len(Decls[callExpr.callee].params[callExpr.index + 1].elements)} :
                   el.propertyName = callExpr.name} :
          \A x \in LiteralCallsOf(e.node) : DotJoin(callExpr.arg.k, x) \in usedKeys

(***************************************************************************)
(* Properties of the ESLint rules                                          *)
(***************************************************************************)
\* The text ESLint shows for a problem: the message of its messageId with
\* the placeholder replaced by the key, as one string.
RECURSIVE Interpolate(_, _)
Interpolate(template, key) ==
    IF template = <<>> THEN <<>>
    ELSE (IF Head(template) = "{{key}}" THEN key ELSE <<Head(template)>>)
            \o Interpolate(Tail(template), key)

\* The problems the step added.
Added == SubSeq(reports', Len(reports) + 1, Len(reports'))

\* The step is the handler of the rule on a declarator const t = useTranslations(...).
HandlerStep(rule) ==
    /\ pc = "lint"
    /\ rule \notin handled
    /\ rule \in handled'
    /\ declarator.isHook
    /\ declarator.declared = 1

\* The full key C9 gives the call at index i of the declarator.
QualifiedKey(i) ==
    IF declarator.arg.a = "lit" /\ declarator.arg.k # EmptyStr
    THEN declarator.arg.k \o <<".">> \o declarator.refs[i].arg.k
    ELSE declarator.refs[i].arg.k

\* The indexes of the direct calls t('k') whose full key is not in keys.
UndefinedCalls(keys) ==
    {i \in 1..Len(declarator.refs) :
        /\ declarator.refs[i].kind = "call"
        /\ declarator.refs[i].arg.a = "lit"
        /\ QualifiedKey(i) \notin keys}

\* The problems sit at the indexes of I, one each, in source order.
OneEach(added, I) ==
    /\ Len(added) = Cardinality(I)
    /\ \A j \in 1..Len(added) : added[j].node \in I
    /\ \A j \in 1..(Len(added) - 1) : added[j].node < added[j + 1].node

\* C9: for const t = useTranslations(ns?), no-missing-keys reports every
\* direct call t('k') whose full key (ns.k for a non-empty string literal ns,
\* otherwise k) is not a defined key, once per occurrence at the key
\* argument with the message Missing translation key: '<full key>', and
\* nothing for a call whose full key is defined; the defined keys are the
\* flattened keys of the source-locale file when nothing is cached for it.
C9_MissingKeyReports ==
    [][HandlerStep("no-missing-keys")
        => /\ OneEach(Added, UndefinedCalls(definedKeys'.keys))
           /\ \A j \in 1..Len(Added) :
                 /\ Added[j].messageId = "missingKey"
                 /\ Added[j].key = QualifiedKey(Added[j].node)
                 /\ Interpolate(messages[Added[j].messageId], Added[j].key)
                       = <<"Missing translation key: '">> \o Added[j].key \o <<"'">>
           /\ (definedKeys.isNull /\ ~definedKeys'.isNull /\ ~cache[SourceLocale].cached)
                 => definedKeys'.keys =
                       (IF files[SourceLocale].parses
                        THEN flattenKeys(files[SourceLocale].doc, EmptyStr) ELSE {})]_vars

\* const t = useTranslations('a'); t('b'); t('x') over {a: {b}}: one problem,
\* at the argument of the second call, for a.x.
C9_Witness ==
    /\ pc = "lint"
    /\ handled = {"no-missing-keys"}
    /\ declarator = Declarator(TRUE, Lit(NsA), 1, <<Call(Lit(KeyB)), Call(Lit(KeyX))>>)
    /\ definedKeys = KeySet({<<"a", ".", "b">>})
    /\ reports = <<[node |-> 2, messageId |-> "missingKey", key |-> <<"a", ".", "x">>]>>

\* C10: for a translator declared from a call of useTranslations,
\* no-dynamic-keys reports every direct call whose first argument is not a
\* string literal, once at that argument, and nothing for a call whose first
\* argument is a string literal.
C10_DynamicKeyReports ==
    [][HandlerStep("no-dynamic-keys")
        => /\ OneEach(Added, {i \in 1..Len(declarator.refs) :
                                 /\ declarator.refs[i].kind = "call"
                                 /\ declarator.refs[i].arg.a \in {"dyn", "num"}})
           /\ \A j \in 1..Len(Added) : Added[j].messageId = "dynamicKey"]_vars

\* const t = useTranslations(); t(42); t('b'): one problem, at the first argument.
C10_Witness ==
    /\ pc = "lint"
    /\ handled = {"no-dynamic-keys"}
    /\ declarator.isHook
    /\ declarator.refs = <<Call(NonString), Call(Lit(KeyB))>>
    /\ reports = <<[node |-> 1, messageId |-> "dynamicKey", key |-> EmptyStr]>>

(***************************************************************************)
(* Properties of deleteKey and flattenKeys                                 *)
(***************************************************************************)
\* The path names a property of the document.
RECURSIVE Present(_, _)
Present(obj, path) ==
    /\ path[1] \in DOMAIN obj
    /\ \/ Len(path) = 1
       \/ ~obj[path[1]].leaf /\ Present(obj[path[1]].kids, Tail(path))

\* The object the last segment of the path would sit in exists and is empty.
RECURSIVE ParentEmpty(_, _)
ParentEmpty(obj, path) ==
    IF Len(path) = 1 THEN obj = EmptyObj
    ELSE /\ path[1] \in DOMAIN obj
         /\ ~obj[path[1]].leaf
         /\ ParentEmpty(obj[path[1]].kids, Tail(path))

\* The paths of the containers of a document.
RECURSIVE ContainerPaths(_)
ContainerPaths(obj) ==
    UNION { IF obj[n].leaf THEN {}
            ELSE {<<n>>} \cup {<<n>> \o p : p \in ContainerPaths(obj[n].kids)}
          : n \in DOMAIN obj }

IsPrefix(p, q) == Len(p) <= Len(q) /\ SubSeq(q, 1, Len(p)) = p

\* Applying deleteKey twice with the path gives what applying it once gives.
TwiceIsOnce(obj, path) ==
    deleteKey(deleteKey(obj, path).obj, path).obj = deleteKey(obj, path).obj

LeavesDeleted(c) ==
    /\ \E l \in LeafPaths(original) : IsPrefix(c, l)
    /\ \A l \in LeafPaths(original) : IsPrefix(c, l) => l \notin LeafPaths(document)

\* C13 as stated: once deleteKey has been applied for every leaf path under
\* a container, the container and every ancestor that held nothing else are
\* absent from the document.
C13_ContainerPruned ==
    \A c \in ContainerPaths(original) :
        LeavesDeleted(c) => ~Present(document, c)

\* C13 amended: the same for a document that holds no empty container.
C13_ContainerWithoutEmptyOnesPruned ==
    EmptyContainers(original) = {}
        => \A c \in ContainerPaths(original) :
              LeavesDeleted(c) => ~Present(document, c)

\* {a: {a: {b}}} after deleteKey for a.a.b: nothing is left, the call
\* returned true.
C13_Witness ==
    /\ pc = "functions"
    /\ original = (SegA :> Container((SegA :> Container(LeafDoc({SegB})))))
    /\ lastPath = <<SegA, SegA, SegB>>
    /\ document = EmptyObj
    /\ emptied

\* Re-nesting: the document whose leaves sit at the given paths.
RECURSIVE Nest(_)
Nest(paths) ==
    [n \in {p[1] : p \in paths} |->
        IF <<n>> \in paths THEN Leaf(LeafValue)
        ELSE Container(Nest({Tail(p) : p \in {q \in paths : q[1] = n /\ Len(q) > 1}}))]

Renest(dotPaths) == Nest({Split(k) : k \in dotPaths})

\* C14 as stated: re-nesting the dot-paths flattenKeys gives for a document
\* of leaves and nested objects rebuilds the document.
C14_FlattenRoundTrip ==
    Renest(flattenKeys(document, EmptyStr)) = document

\* C14 amended: the same for a document that holds no empty container and
\* whose property names are non-empty and hold no ".".
C14_FlattenRoundTripOfPlainDocuments ==
    (/\ EmptyContainers(document) = {}
     /\ \A n \in NamesOf(document) : PlainName(n))
        => Renest(flattenKeys(document, EmptyStr)) = document

\* flattenKeys({a: {b}, b}) returned a.b and b.
C14_Witness ==
    /\ pc = "functions"
    /\ document = (SegA :> Container(LeafDoc({SegB}))) @@ LeafDoc({SegB})
    /\ flatKeys = {<<"a", ".", "b">>, <<"b">>}


(***************************************************************************)
(* Properties of the rule configuration                                    *)
(***************************************************************************)
\* The handler of no-missing-keys loads the keys in this step.
FirstLoad == NoMissingKeys /\ definedKeys.isNull /\ ~definedKeys'.isNull

\* The keys of the file of a directory and a locale.
KeysAt(dir, locale) ==
    LET file == FileAt(files, dir, locale)
    IN  IF file.exists /\ file.parses THEN flattenKeys(file.doc, EmptyStr) ELSE {}

\* The first of the fields that passes the test, else the default.
FirstOf(IsChosen(_), option, setting, default) ==
    IF IsChosen(option) THEN option.value
    ELSE IF IsChosen(setting) THEN setting.value
    ELSE default
IsGiven(field) == field.given

ExpandedOnce ==
    \A i, j \in 1..Len(stack) : stack[i].node = stack[j].node => i = j

\* C15: no binding node is expanded again while or after it is expanded, and
\* every traversal findUsagesRecursive starts from a hook binding ends, the
\* loop over the hook calls going on, also when the functions forward the
\* translator to themselves or to each other in a cycle.
C15_TraversalTerminates ==
    /\ [](ExpandedOnce /\ (\A i \in 1..Len(stack) : stack[i].node \in visited))
    /\ (pc = "refs") ~> (pc = "calls")

\* A traversal that went round the cycle f -> h -> f and through the call of
\* k by itself has ended.
C15_Witness ==
    /\ pc = "calls"
    /\ stack = <<>>
    /\ {"v", "f.a", "f.b", "h.c", "k.t"} \subseteq visited

(***************************************************************************)
(* Properties of a source-locale file that cannot be read                  *)
(***************************************************************************)
\* The source-locale file is absent or does not parse.
Unreadable == ~(files[SourceLocale].exists /\ files[SourceLocale].parses)

\* The indexes of the direct calls t('k') of the declarator.
LiteralCalls ==
    {i \in 1..Len(declarator.refs) :
        IsCallee(declarator.refs[i]) /\ IsStringLiteral(declarator.refs[i].arg)}

FixStep == pc = "fix" /\ messageFiles # <<>> /\ messageFiles' = Tail(messageFiles)

\* The locale files of the directory.
MessageFiles == {l \in Locales : files[l].exists}

\* C17: in fix mode, whatever the order of the files, a locale file that
\* does not parse is reported and left as it is, a locale file that parses
\* is written, none of the unused keys being a path of the written document
\* and every leaf of it being one of the document read, and no other file is
\* touched by the step; when the loop is over every locale file of the
\* directory was reported or written.
C17_FixIsolatesFiles ==
    [][/\ FixStep =>
            LET file == Head(messageFiles) IN
            /\ \A l \in Locales \ {file} : files'[l] = files[l]
            /\ ~files[file].parses
                 => files'[file] = files[file] /\ errors' = errors \cup {file}
            /\ files[file].parses
                 => /\ errors' = errors
                    /\ files'[file].parses
                    /\ files'[file].mtimeMs = files[file].mtimeMs + 1
                    /\ \A k \in unusedKeys : ~Present(files'[file].doc, Split(k))
                    /\ \A q \in LeafPaths(files'[file].doc) :
                          /\ q \in LeafPaths(files[file].doc)
                          /\ ValueAt(files'[file].doc, q) = ValueAt(files[file].doc, q)
       /\ (pc = "fix" /\ pc' = "done")
            => /\ errors = {l \in MessageFiles : ~files[l].parses}
               /\ \A l \in MessageFiles : files[l].parses => files[l].mtimeMs = 1]_vars

\* de.json did not parse and was reported, en.json {a, b} was written as {b}.
C17_Witness ==
    /\ pc = "done"
    /\ mode = "fix"
    /\ files[OtherLocale] = BadFile
    /\ errors = {OtherLocale}
    /\ usedKeys = {KeyB}
    /\ unusedKeys = {SegA}
    /\ files[SourceLocale] = WriteFile(JsonFile(LeafDoc({SegA, SegB})), LeafDoc({SegB}))

(***************************************************************************)
(* loadMessages called by several callers for one path                     *)
(***************************************************************************)
\* An invocation runs from its first line to its return without a
\* suspension point; the steps below are its accesses to the disk and to the
\* cache, taken in any order among the callers, which includes every order
\* in which whole invocations follow each other.
At(c, place) == calls[c].at = place
Goto(c, place) == calls' = [calls EXCEPT ![c].at = place]
Returns(c, keys) == calls' = [calls EXCEPT ![c].at = "returned", ![c].keys = keys]

RaceFrame ==
    UNCHANGED <<previous, docVars, lintVars, files, mode, pc, allDefinedKeys, resolverVars,
                reportVars, exitCode>>

\* loadMessages(cwd, messagesDir, sourceLocale) is called (core.ts 21-23).
Invoke(c) ==
    /\ pc = "race"
    /\ At(c, "idle")
    /\ Goto(c, "existsSync")
    /\ UNCHANGED cache
    /\ RaceFrame

\* core.ts 25-28
ExistsSync(c) ==
    /\ At(c, "existsSync")
    /\ IF ~files[SourceLocale].exists THEN Returns(c, {}) ELSE Goto(c, "statSync")
    /\ UNCHANGED cache
    /\ RaceFrame

\* core.ts 30
StatSync(c) ==
    /\ At(c, "statSync")
    /\ calls' = [calls EXCEPT ![c].at = "get", ![c].mtimeMs = files[SourceLocale].mtimeMs]
    /\ UNCHANGED cache
    /\ RaceFrame

\* core.ts 31-35
CacheGet(c) ==
    /\ At(c, "get")
    /\ IF CacheHit(cache[SourceLocale], calls[c].mtimeMs)
       THEN Returns(c, cache[SourceLocale].keys)
       ELSE Goto(c, "readFileSync")
    /\ UNCHANGED cache
    /\ RaceFrame

\* core.ts 37-40 and 44-48
ReadFileSync(c) ==
    /\ At(c, "readFileSync")
    /\ IF files[SourceLocale].parses
       THEN calls' = [calls EXCEPT ![c].at = "set",
                                   ![c].keys = flattenKeys(files[SourceLocale].doc, EmptyStr)]
       ELSE Returns(c, {})
    /\ UNCHANGED cache
    /\ RaceFrame

\* core.ts 42-43
CacheSet(c) ==
    /\ At(c, "set")
    /\ cache' = [cache EXCEPT ![SourceLocale] = Entry(calls[c].mtimeMs, calls[c].keys)]
    /\ Goto(c, "returned")
    /\ RaceFrame

\* What the cache holds for a file before the callers come: nothing, the
\* keys of an earlier content under an earlier modification time, or the
\* keys of the file under its modification time.
EntriesFor(file) ==
    {NoEntry}
        \cup {Entry(0, flattenKeys(old.doc, EmptyStr)) : old \in {f \in Contents : f.parses}}
        \cup (IF file.exists /\ file.parses
               THEN {Entry(file.mtimeMs, flattenKeys(file.doc, EmptyStr))}
               ELSE {})

RaceInit ==
    /\ \E file \in {AbsentFile} \cup {Rewrite(BadFile, content) : content \in Contents} :
          /\ files = [l \in Locales |-> IF l = SourceLocale THEN file ELSE AbsentFile]
          /\ \E entry \in EntriesFor(file) :
                cache = [l \in Locales |-> IF l = SourceLocale THEN entry ELSE NoEntry]
    /\ calls = [c \in Callers |-> NoCall]
    /\ previous = NoRun
    /\ mode = "check"
    /\ pc = "race"
    /\ allDefinedKeys = {}
    /\ usedKeys = {}
    /\ dynamicUsages = <<>>
    /\ filesLeft = 0
    /\ importsHook = FALSE
    /\ hooksLeft = 0
    /\ callExpr = NoHook
    /\ stack = <<>>
    /\ visited = {}
    /\ ref = NoRef
    /\ unusedKeys = {}
    /\ missingKeys = {}
    /\ hasIssues = FALSE
    /\ exitCode = 0
    /\ messageFiles = <<>>
    /\ errors = {}
    /\ lintLeft = 0
    /\ declLeft = 0
    /\ declarator = NoDeclarator
    /\ handled = Rules
    /\ definedKeys = Null
    /\ context = NoContext
    /\ reports = <<>>
    /\ NoDocument

RaceNext ==
    \E c \in Callers :
        \/ Invoke(c)
        \/ ExistsSync(c)
        \/ StatSync(c)
        \/ CacheGet(c)
        \/ ReadFileSync(c)
        \/ CacheSet(c)

RaceSpec == RaceInit /\ [][RaceNext]_vars

(***************************************************************************)
(* Properties of the cache of loadMessages                                 *)
(***************************************************************************)
\* C18: whatever writes of the source-locale file, each moving its
\* modification time on, precede a call of loadMessages, the call returns
\* the flattened keys of the content the file holds at the call (no key for
\* a file that is absent or does not parse), and the entry it leaves for a
\* file that parses is the one of that modification time and those keys: a
\* set cached under another modification time is not returned.
C18_CacheFollowsWrites ==
    pc = "loaded"
        => /\ allDefinedKeys = KeysAt(DefaultDir, SourceLocale)
           /\ files[SourceLocale].parses
                => cache[SourceLocale]
                      = Entry(files[SourceLocale].mtimeMs, allDefinedKeys)
           /\ cache[SourceLocale].cached
                => cache[SourceLocale].mtimeMs <= files[SourceLocale].mtimeMs

\* {b} was loaded and cached, the file was written twice, the second time as
\* {b, x}, and the call after that returned b and x.
C18_Witness ==
    /\ pc = "loaded"
    /\ files[SourceLocale] = [JsonFile(LeafDoc({SegB, SegX})) EXCEPT !.mtimeMs = 2]
    /\ cache[SourceLocale] = Entry(2, {KeyB, KeyX})
    /\ allDefinedKeys = {KeyB, KeyX}

(***************************************************************************)
(* Properties of the forwarding of a translator                            *)
(***************************************************************************)
\* The declaration the callee resolves to, an import alias followed.
Resolved(callee) ==
    IF Decls[callee].kind = "import" THEN Decls[Decls[callee].target] ELSE Decls[callee]

\* The callee resolves to a function, arrow, method or function expression.
IsFunctionLike(callee) ==
    \/ Resolved(callee).kind = "function"
    \/ Resolved(callee).kind = "variable" /\ Resolved(callee).fn

\* The binding a bare argument at index n of a call of the callee leads to.
BareTargets(callee, n) ==
    IF IsFunctionLike(callee) /\ Len(Resolved(callee).params) > n
    THEN <<Resolved(callee).params[n + 1].node>>
    ELSE <<>>

\* findUsagesRecursive is entered for a node it expands.
Expands == pc = "refs" /\ Len(stack') = Len(stack) + 1

PropertyTargets(callee, n, p) ==
    IF IsFunctionLike(callee) /\ Len(Resolved(callee).params) > n
                              /\ Resolved(callee).params[n + 1].pattern
    THEN LET es == Resolved(callee).params[n + 1].elements
         IN  {es[i].node : i \in {j \in 1..Len(es) : es[j].propertyName = p}}
    ELSE {}

\* C20: a translator that is the value of a property named p, shorthand {v}
\* or explicit {p: v}, of an object literal that is the n-th argument of a
\* call leads to a binding, of the same namespace, for exactly the elements
\* of the object binding pattern of the n-th parameter that destructure p.
C20_PropertyForwarded ==
    [][/\ (ReferenceStep /\ ref'.kind = "prop")
            => {stack'[1].calls[i] : i \in 1..Len(stack'[1].calls)}
                  = PropertyTargets(ref'.callee, ref'.index, ref'.name)
       /\ Expands => stack'[1].namespace = Top.namespace]_vars

(***************************************************************************)
(* Properties of a hook call with a dynamic namespace                      *)
(***************************************************************************)
\* The loop of main passes the next call of useTranslations.
HookStep == pc = "calls" /\ hooksLeft' = hooksLeft - 1

\* C21: a hook call whose first argument is there and is not a string
\* literal appends one record, of a dynamic namespace, to the dynamic usages,
\* adds no key and starts no traversal; no traversal ever runs for such a
\* hook call, so that no reference of the variable it initialises is looked
\* at.
C21_DynamicNamespaceUnbound ==
    [][/\ (HookStep /\ callExpr'.arg.a = "dyn")
            => /\ dynamicUsages' =
                     dynamicUsages \o
                        <<[file |-> filesLeft, what |-> "namespace", namespace |-> EmptyStr]>>
               /\ usedKeys' = usedKeys
               /\ stack' = <<>>
               /\ pc' = "calls"
       /\ pc' = "refs" => callExpr'.arg.a # "dyn"]_vars

\* const t = useTranslations(ns) was passed: one record and no key.
C21_Witness ==
    /\ pc = "calls"
    /\ callExpr = Hook(Dyn, "var", "", 0, "")
    /\ Len(dynamicUsages) = 1
    /\ dynamicUsages[1].what = "namespace"
    /\ usedKeys = {}
    /\ stack = <<>>

\* C22: the handler of no-missing-keys on const t = useTranslations(ns), ns
\* there and not a string literal, checks no call of t against the defined
\* keys: it loads no keys and reports no problem.
C22_DynamicNamespaceUnchecked ==
    [][(HandlerStep("no-missing-keys") /\ declarator.arg.a \notin {"none", "lit"})
            => /\ Added = <<>>
               /\ definedKeys' = definedKeys]_vars

(***************************************************************************)
(* Properties of the used-key set                                          *)
(***************************************************************************)
\* C23: the used-key set changes only in a step of the traversal of a
\* binding reached from a hook call, on a reference that is a direct or rich
\* call with a string-literal first argument k, and then by the one key ns.k
\* for the namespace ns of the binding (k alone for the empty namespace); a
\* call with another argument, a reference that is no call and a forwarding
\* step add no key.
C23_UsedKeysBacked ==
    [][/\ usedKeys' # usedKeys
            => /\ ReferenceStep
               /\ Top.node \in visited
               /\ Top.namespace = HookNamespace(callExpr)
               /\ ref'.kind \in {"call", "rich"}
               /\ ref'.arg.a = "lit"
               /\ usedKeys' = usedKeys \cup
                     {IF Top.namespace # EmptyStr
                      THEN DotJoin(Top.namespace, ref'.arg.k)
                      ELSE ref'.arg.k}
       /\ (ReferenceStep /\ ~(ref'.kind \in {"call", "rich"} /\ ref'.arg.a = "lit"))
            => usedKeys' = usedKeys
       /\ ~ReferenceStep => usedKeys' = usedKeys]_vars

\* const t = useTranslations('a'); t.rich('b'); t.rich: the rich call added
\* a.b, the property access that is not called added nothing.
C23_Witness ==
    /\ pc = "refs"
    /\ callExpr = Hook(Lit(NsA), "var", "", 0, "")
    /\ Top.node = "v"
    /\ Top.more = 0
    /\ ref = Member
    /\ usedKeys = {DotJoin(NsA, KeyB)}
    /\ dynamicUsages = <<>>

(***************************************************************************)
(* Properties of the fix over the locale files                             *)
(***************************************************************************)
\* No unused key names a property chain of the document.
LacksUnused(obj, unused) == \A k \in unused : ~Present(obj, Split(k))

FileKeys(file) ==
    IF file.exists /\ file.parses THEN {JoinPath(p) : p \in LeafPaths(file.doc)} ELSE {}

AllReturned == \A c \in Callers : At(c, "returned")

\* An entry of the cache under the modification time of the file holds the
\* keys of the file.
CacheAgrees ==
    (/\ files[SourceLocale].exists
     /\ cache[SourceLocale].cached
     /\ cache[SourceLocale].mtimeMs = files[SourceLocale].mtimeMs)
        => cache[SourceLocale].keys = FileKeys(files[SourceLocale])

\* C25 as stated: the file not changing, every invocation of loadMessages
\* returns the keys of the file, whatever the order of the steps of the
\* invocations; once all have returned the cache holds these keys under the
\* modification time of the file; and an entry under the modification time
\* of a file that exists never holds other keys.
C25_RaceLeavesFileKeys ==
    /\ \A c \in Callers : At(c, "returned") => calls[c].keys = FileKeys(files[SourceLocale])
    /\ AllReturned
         => cache[SourceLocale] = Entry(files[SourceLocale].mtimeMs, FileKeys(files[SourceLocale]))
    /\ CacheAgrees

\* C25 amended: the same, the cache holding the keys at the end for a file
\* that exists and parses; for another file no invocation comes to write the
\* cache.
C25_RaceLeavesKeysOfParsedFile ==
    /\ \A c \in Callers : At(c, "returned") => calls[c].keys = FileKeys(files[SourceLocale])
    /\ ~(files[SourceLocale].exists /\ files[SourceLocale].parses)
         => \A c \in Callers : ~At(c, "set")
    /\ (AllReturned /\ files[SourceLocale].exists /\ files[SourceLocale].parses)
         => cache[SourceLocale] = Entry(files[SourceLocale].mtimeMs, FileKeys(files[SourceLocale]))
    /\ CacheAgrees

\* Two callers missed the entry of an earlier content of {a: {b}}, both read
\* the file and both set the cache: both returned a.b and the cache holds it.
C25_Witness ==
    /\ pc = "race"
    /\ files[SourceLocale] = Rewrite(BadFile, JsonFile((SegA :> Container(LeafDoc({SegB})))))
    /\ AllReturned
    /\ \A c \in Callers : calls[c].mtimeMs = 1 /\ calls[c].keys = {DotJoin(SegA, SegB)}
    /\ cache[SourceLocale] = Entry(1, {DotJoin(SegA, SegB)})

(***************************************************************************)
(* The rule against the CLI                                                *)
(***************************************************************************)
\* The full keys no-missing-keys reported for the declarator.
Reported == {reports[i].key : i \in {j \in 1..Len(reports) : reports[j].messageId = "missingKey"}}

\* C26: for a file of hook bindings with no argument or a string-literal
\* namespace and of direct and rich calls with string-literal keys, the full
\* keys no-missing-keys reports are the missing keys the CLI computes for
\* the file over the same message file.
C26_RuleReportsMissingSet ==
    pc \in {"report", "done"} => Reported = missingKeys

(***************************************************************************)
(* The frame of deleteKey                                                  *)
(***************************************************************************)
\* The call of deleteKey that led from old to new took no key but the path
\* from the flattened keys, took no leaf but the one at the path, added none
\* and changed no value.
OnlyPathRemoved(old, new, path) ==
    /\ flattenKeys(old, EmptyStr) \ flattenKeys(new, EmptyStr) \subseteq {JoinPath(path)}
    /\ LeafPaths(old) \ LeafPaths(new) \subseteq {path}
    /\ \A q \in LeafPaths(new) : q \in LeafPaths(old) /\ ValueAt(new, q) = ValueAt(old, q)

\* The path names a container of the document.
IsContainerAt(obj, path) == Present(obj, path) /\ ~ValueAt(obj, path).leaf

\* C27 as stated: whatever the document and the path, deleteKey removes no
\* key but the path from the flattened keys of the document, and every other
\* leaf keeps its path and its value.
C27_DeleteRemovesOnlyPath ==
    [][(pc = "functions" /\ lastPath' # <<>>)
         => OnlyPathRemoved(document, document', lastPath')]_vars

\* C27 amended: the same for a path that names no container of the document.
C27_DeleteOfLeafRemovesOnlyPath ==
    [][(pc = "functions" /\ lastPath' # <<>> /\ ~IsContainerAt(document, lastPath'))
         => OnlyPathRemoved(document, document', lastPath')]_vars

\* {a: {a, b}} after deleteKey for a.b: a.a is left as it was.
C27_Witness ==
    /\ pc = "functions"
    /\ original = (SegA :> Container(LeafDoc({SegA, SegB})))
    /\ lastPath = <<SegA, SegB>>
    /\ document = (SegA :> Container(LeafDoc({SegA})))
    /\ ~emptied

(***************************************************************************)
(* Properties of the writes of the CLI                                     *)
(***************************************************************************)
\* C28: a run in check mode leaves every message file as it is, whatever it
\* found; so does a run in fix mode whose unused set is empty; a file
\* changes only in the step of the fix loop over it, in fix mode, with
\* unused keys at hand.
C28_WritesOnlyInFixOfUnused ==
    [][/\ (mode = "check" /\ mode' = "check") => files' = files
       /\ (mode = "fix" /\ unusedKeys = {}) => (files' = files /\ pc' # "fix")
       /\ files' # files => (mode = "fix" /\ unusedKeys # {} /\ FixStep)]_vars

\* A check of en.json {a, b} with a.b used ended with unused and missing
\* keys, and the file is as it was.
C28_Witness ==
    /\ pc = "done"
    /\ ~previous.ran
    /\ mode = "check"
    /\ unusedKeys = {SegA, SegB}
    /\ missingKeys = {DotJoin(NsA, KeyB)}
    /\ exitCode = 1
    /\ files[SourceLocale] = JsonFile(LeafDoc({SegA, SegB}))

\* A fix of en.json {b} with b used ended without a write.
C28_FixWitness ==
    /\ pc = "done"
    /\ mode = "fix"
    /\ unusedKeys = {}
    /\ usedKeys = {KeyB}
    /\ files[SourceLocale] = JsonFile(LeafDoc({SegB}))

(***************************************************************************)
(* Properties of a run that follows a fix                                  *)
(***************************************************************************)
\* The run at hand follows a run in fix mode and has ended.
AfterFix == previous.ran /\ previous.mode = "fix" /\ pc \in {"done", "exited"}

\* The message files the first run started from all parsed.
AllParsed == \A l \in Locales : previous.files[l].exists => previous.files[l].parses

\* C29: a run that follows a run in fix mode over documents that parse, the
\* source code being the same, comes to its report with an empty unused set
\* and the missing set of the run before, and leaves every document with
\* the content the fix left.
C29_SecondRunFindsNothingToFix ==
    (AfterFix /\ AllParsed)
        => /\ pc = "done"
           /\ unusedKeys = {}
           /\ missingKeys = previous.missingKeys
           /\ \A l \in Locales : files[l].doc = previous.files[l].doc

\* C30: a run in check mode that follows a run in fix mode that ended with
\* exit code 0, over the same source code and the documents the fix left,
\* ends with exit code 0.
C30_CheckAfterCleanFixPasses ==
    (AfterFix /\ previous.exitCode = 0 /\ mode = "check") => exitCode = 0

=========================================================================
